---- MODULE Spec2Model ----
(***************************************************************************)
(* Verification model of shumei: the wire codec registry (wire.ts), the   *)
(* Channel over a MessagePort (channel.ts), the Mailbox with selective    *)
(* receive (mailbox.ts), remote values (remote.ts) and the stage of an    *)
(* execution context (stage.ts).                                          *)
(*                                                                         *)
(* The specifications share the module:                                    *)
(*   SpecWire      the codec registry, encode and decode                   *)
(*   SpecTransfer  transfer() and the transferables of encode              *)
(*   SpecChannel   a pair() of channels over an entangled port pair        *)
(*   SpecSend      Channel.send and delivery alone                         *)
(*   SpecMailbox   one Mailbox fed by a receiver, with concurrent callers  *)
(*   SpecRemote    a proxy and the handler of the value it stands for      *)
(*   SpecStage     a tab, the dedicated worker it spawns and their stages  *)
(*   SpecShared    two tabs that connect to one shared worker              *)
(*   SpecActors    actors of two linked stages: register, actor, send      *)
(*   SpecRegistry  spawn and register on two linked stages                 *)
(*   SpecRouter    the router of a stage on the packets from its links     *)
(*   SpecRelay     a send through a chain and through a ring of stages     *)
(*   SpecReply     an actor inside a message, through the actor codec      *)
(*   SpecRoutine   a local actor: its routine, its mailbox and its engine  *)
(*   SpecSelect    select() over two input channels                        *)
(* Each one leaves the variables of the others at their initial value.    *)
(***************************************************************************)
EXTENDS Integers, Sequences, FiniteSets, TLC

VARIABLES
    codecs,     \* module-level `codecs` Map (insertion-ordered), as a sequence
    transfers,  \* module-level `transfers` WeakMap of wire.ts
    live,       \* globalThis[MARKER]: the Wire singleton (made, codecs, transfers)
    regs,       \* number of registration calls made so far
    wop,        \* the wire operation performed last
    wx,         \* argument of the last encode
    wenc,       \* envelope returned by the last encode
    wdec,       \* value returned (or error thrown) by the last decode
    wreg,       \* codec handed to the last registration call
    given       \* per value: the list last handed to live().transfer(value, list)

wireVars == <<codecs, transfers, live, regs, wop, wx, wenc, wdec, wreg, given>>

VARIABLES
    port,       \* per side: the MessagePort (messages in flight to it, closed)
    queue,      \* per side: the Channel's queueable queue
    sent,       \* per side: the values handed to send(), in call order
    got,        \* per side: the outcome of every recv(), in call order
    ended,      \* per side: what ended the queue, "open" while it has not ended
    slast       \* per side: the last send(): its value, whether it threw, and the
                \* number of postMessage calls made on the port before it

chanVars == <<port, queue, sent, got, ended, slast>>

VARIABLES
    mchannel,   \* Mailbox.channel: the mailbox's own queueable queue
    pulls,      \* the outcome of every next() made on Mailbox.channel
    buffer,     \* Mailbox.buffer: the stashed messages
    arrived,    \* every message the receiver loop pushed, in arrival order
    calls,      \* every recv()/match() call made on the mailbox
    ready,      \* calls whose awaited next() has settled, in settling order
    mlast,      \* the call that the last step completed, 0 if none
    mended,     \* what ended Mailbox.channel, "open" while it has not ended
    input       \* "open" while the received channel still yields values

mboxVars == <<mchannel, pulls, buffer, arrived, calls, ready, mlast, mended, input>>

VARIABLES
    rtarget,    \* the value handed to spawn(): the function served by the handler
    rops,       \* every operation made through the proxy, in call order
    rbuffer,    \* the buffer of the proxy's Mailbox
    rready,     \* proxy matches whose awaited next() has settled, in settling order
    hst,        \* the handler loop: "listening" on a recv(), or "dead"
    hpull,      \* the handler's current recv() among the outcomes of its channel
    hlog        \* every request the handler took up, and what became of it

remoteVars == <<rtarget, rops, rbuffer, rready, hst, hpull, hlog>>

VARIABLES
    selfLIVE,   \* per execution context, self[LIVE]: the Live stage, or None
    uuid,       \* how many times uuid() was called
    links,      \* per context and peer context, how far link() on the channel between them got
    wires,      \* per context and peer context, the packets of the peer not yet taken by link() or the router
    emitted,    \* per context, every packet its stage sent, with the stage it was sent to
    acted,      \* every call of a module-level function, with the instance it acted on
    sop         \* the last module-level call

stageVars == <<selfLIVE, uuid, links, wires, emitted, acted, sop>>

VARIABLES
    routine,    \* a LocalActor: its routine, its queue and Mailbox, and how far its engine is
    selected    \* a select(): its input channels, their loops and its output queue

actorVars == <<routine, selected>>

vars == <<wireVars, chanVars, mboxVars, remoteVars, stageVars, actorVars>>

\* what the operations of one component leave alone
exceptWire == <<chanVars, mboxVars, remoteVars, stageVars, actorVars>>

exceptChan == <<wireVars, mboxVars, remoteVars, stageVars, actorVars>>

exceptWireChan == <<mboxVars, remoteVars, stageVars, actorVars>>

exceptMbox == <<wireVars, chanVars, remoteVars, stageVars, actorVars>>

exceptRemote == <<mboxVars, stageVars, actorVars>>

exceptStage == <<wireVars, chanVars, mboxVars, remoteVars, actorVars>>

exceptActor == <<wireVars, chanVars, mboxVars, remoteVars, stageVars>>

-----------------------------------------------------------------------------
(* Bounds *)

MaxDepth == 1      \* nesting depth of the values handed to encode
MaxReg == 3        \* registration calls in one behaviour
MaxSend == 2       \* send() calls on one side of a pair
MaxRecv == 2       \* recv() calls on one side of a pair
MaxArrive == 3     \* messages arriving at a mailbox
MaxCalls == 3      \* recv()/match() calls made on a mailbox
MaxMarker == 3     \* length of the transferable list of one envelope
MaxOps == 2        \* operations made through one proxy
MaxYield == 3      \* yields of an actor's routine before it returns
MaxMsg == 2        \* messages sent to one actor
MaxIn == 2         \* values received on one input of a select()
MaxTake == 4       \* values asked of a select()

-----------------------------------------------------------------------------
(* JavaScript values.  Every value is a record with a type tag t, a        *)
(* primitive payload p and the list m of its own enumerable entries, in    *)
(* Object.entries order.                                                   *)

Prim(s) == [t |-> "prim", p |-> s, m |-> <<>>]

undefined == Prim("undefined")

Entry(k, v) == [k |-> k, v |-> v]

Obj(entries) == [t |-> "obj", p |-> "", m |-> entries]

Arr(entries) == [t |-> "arr", p |-> "", m |-> entries]

\* Object.entries of an array: its index keys "0", "1", ...
IndexKey(i) == CASE i = 1 -> "0" [] i = 2 -> "1" [] i = 3 -> "2" [] OTHER -> "n"

ArrOf(items) == Arr([i \in 1..Len(items) |-> Entry(IndexKey(i), items[i])])

\* an instance of a class (a Channel, a function, a marked value ...)
Inst(cls, p) == [t |-> cls, p |-> p, m |-> <<>>]

TypeError == [t |-> "TypeError", p |-> "", m |-> <<>>]

\* no value: nothing has been encoded or decoded yet
None == [t |-> "none"]

\* an object that is (or holds) a member of itself, and the error that the
\* unbounded recursion over it ends in
Cyclic == [t |-> "cyclic", p |-> "", m |-> <<>>]

isCyclic(value) == value.t = "cyclic"

RangeError == [t |-> "RangeError"]

\* lodash: arrays, functions, class instances and plain objects are objects
isObject(value) == value.t # "prim"

isArray(value) == value.t = "arr"

isEncoded(value) == value.t \in {"PLAIN", "ENCODED"}

-----------------------------------------------------------------------------
(* Codecs.  A codec has a name, an identity impl and the set of type tags  *)
(* its canHandle accepts.  Its encode moves the underlying resource p (as  *)
(* the Channel codec moves its port) and its decode rebuilds the value     *)
(* from a payload that it produced itself.                                 *)

NoCodec == [name |-> "", impl |-> 0, handles |-> {}]

canHandle(c, value) == value.t \in c.handles

CodecEncode(c, value) ==
    [payload |-> [t |-> "payload", by |-> c.impl, cls |-> value.t, p |-> value.p],
     transfer |-> <<value.p>>]

CodecDecode(c, payload) ==
    IF payload.by = c.impl
    THEN [t |-> payload.cls, p |-> payload.p, m |-> <<>>]
    ELSE [t |-> "garbled", p |-> payload.p, m |-> <<>>]

\* Map.prototype.set: a new key is appended, an existing key keeps its place
MapSet(map, c) ==
    IF \E i \in 1..Len(map) : map[i].name = c.name
    THEN [i \in 1..Len(map) |-> IF map[i].name = c.name THEN c ELSE map[i]]
    ELSE Append(map, c)

\* Map.prototype.get
MapGet(map, name) ==
    IF \E i \in 1..Len(map) : map[i].name = name
    THEN map[CHOOSE i \in 1..Len(map) : map[i].name = name]
    ELSE NoCodec

EmptyWeakMap == [v \in {} |-> <<>>]

\* WeakMap.prototype.get(value) || []
WeakGet(tr, value) == IF value \in DOMAIN tr THEN tr[value] ELSE <<>>

\* the array stored under value is the one the caller holds: writes through
WeakAlias(tr, value, list) ==
    IF value \in DOMAIN tr THEN [tr EXCEPT ![value] = list] ELSE tr

-----------------------------------------------------------------------------
(* class Wire *)

\* a lookup that ignores the name and takes the first registered codec
codecForName_Mut(cs, name) == IF cs = <<>> THEN NoCodec ELSE cs[1]

\* codecFor(value) with a string argument
codecForName(cs, name) == MapGet(cs, name)

\* a search that keeps the last codec whose canHandle holds
codecFor_Mut(cs, value) ==
    IF \E i \in 1..Len(cs) : canHandle(cs[i], value)
    THEN cs[CHOOSE i \in 1..Len(cs) :
                /\ canHandle(cs[i], value)
                /\ \A j \in (i + 1)..Len(cs) : ~canHandle(cs[j], value)]
    ELSE NoCodec

\* codecFor(value) with any other argument: first codec whose canHandle holds
codecFor(cs, value) ==
    IF \E i \in 1..Len(cs) : canHandle(cs[i], value)
    THEN cs[CHOOSE i \in 1..Len(cs) :
                /\ canHandle(cs[i], value)
                /\ \A j \in 1..(i - 1) : ~canHandle(cs[j], value)]
    ELSE NoCodec

transferable(tr, value) ==
    IF isEncoded(value) THEN WeakGet(tr, value) \o value.marker
    ELSE WeakGet(tr, value)

RECURSIVE WireEncode(_, _, _)
RECURSIVE WireEncodeEntries(_, _, _, _, _)

\* the loop over Object.entries(value): encodes each member in turn and
\* pushes the member's transferables onto `transfer`
WireEncodeEntries(cs, tr, entries, encoding, transfer) ==
    IF entries = <<>> THEN [encoding |-> encoding, transfer |-> transfer, tr |-> tr]
    ELSE LET r == WireEncode(cs, tr, Head(entries).v)
         IN WireEncodeEntries(cs, r.tr, Tail(entries),
                              Append(encoding, Entry(Head(entries).k, r.env)),
                              transfer \o r.env.marker)

\* Wire.encode(value): the envelope and the transfers map after the call
WireEncode(cs, tr, value) ==
    IF isEncoded(value) THEN [env |-> value, tr |-> tr]
    ELSE IF isObject(value) /\ codecFor(cs, value) # NoCodec
    THEN LET codec == codecFor(cs, value)
             r == CodecEncode(codec, value)
         IN [env |-> [t |-> "ENCODED", codec |-> codec.name,
                      value |-> r.payload, marker |-> r.transfer],
             tr |-> tr]
    ELSE LET transfer == transferable(tr, value)
         IN IF isObject(value)
            THEN LET r == WireEncodeEntries(cs, tr, value.m, <<>>, transfer)
                 IN [env |-> [t |-> "PLAIN", value |-> Obj(r.encoding),
                              marker |-> r.transfer],
                     tr |-> WeakAlias(r.tr, value, r.transfer)]
            ELSE IF isArray(value)
            THEN LET r == WireEncodeEntries(cs, tr, value.m, <<>>, transfer)
                 IN [env |-> [t |-> "PLAIN", value |-> Arr(r.encoding),
                              marker |-> r.transfer],
                     tr |-> WeakAlias(r.tr, value, r.transfer)]
            ELSE [env |-> [t |-> "PLAIN", value |-> value, marker |-> transfer],
                  tr |-> tr]

RECURSIVE WireDecode(_, _)

\* Wire.decode(wire); a missing codec makes `codecFor(...)!.decode` throw
WireDecode(cs, wire) ==
    IF wire.t = "ENCODED"
    THEN IF codecForName(cs, wire.codec) = NoCodec THEN TypeError
         ELSE CodecDecode(codecForName(cs, wire.codec), wire.value)
    ELSE LET decoding == [i \in 1..Len(wire.value.m) |->
                             Entry(wire.value.m[i].k, WireDecode(cs, wire.value.m[i].v))]
             thrown == \E i \in 1..Len(decoding) : decoding[i].v = TypeError
         IN IF isObject(wire.value)
            THEN IF thrown THEN TypeError ELSE Obj(decoding)
            ELSE IF isArray(wire.value)
            THEN IF thrown THEN TypeError ELSE Arr(decoding)
            ELSE wire.value

\* Wire.live(): the singleton, constructed on first use from the module map
NoWire == [made |-> FALSE, codecs |-> <<>>, transfers |-> EmptyWeakMap]

Wire(cs) == [made |-> TRUE, codecs |-> cs, transfers |-> EmptyWeakMap]

Live(lv, cs) == IF lv.made THEN lv ELSE Wire(cs)

-----------------------------------------------------------------------------
(* wire.ts: the functions channel.ts imports.  encode returns the tuple    *)
(* [message, transfer]; the codecs are tried on every value.               *)

RECURSIVE encode(_, _, _)
RECURSIVE encodeEntries(_, _, _, _, _)

encodeEntries(cs, tr, entries, encoding, transferList) ==
    IF entries = <<>>
    THEN [encoding |-> encoding, transfer |-> transferList, tr |-> tr, thrown |-> FALSE]
    ELSE LET r == encode(cs, tr, Head(entries).v)
         IN IF r.thrown
            THEN [encoding |-> encoding, transfer |-> transferList, tr |-> r.tr,
                  thrown |-> TRUE]
            ELSE encodeEntries(cs, r.tr, Tail(entries),
                               Append(encoding, Entry(Head(entries).k, r.message)),
                               transferList \o r.transfer)

\* encode(value): [message, transfer], the transfers map after the call, and
\* whether the call threw instead of returning.  The recursion over
\* Object.entries has no cycle check: a value that contains itself overflows
\* the stack and the RangeError leaves encode.
encode(cs, tr, value) ==
    IF codecFor(cs, value) # NoCodec
    THEN LET codec == codecFor(cs, value)
             r == CodecEncode(codec, value)
         IN [message |-> [t |-> "ENCODED", codec |-> codec.name, value |-> r.payload],
             transfer |-> r.transfer, tr |-> tr, thrown |-> FALSE]
    ELSE LET transferList == WeakGet(tr, value)
         IN IF isCyclic(value)
            THEN [message |-> RangeError, transfer |-> <<>>, tr |-> tr, thrown |-> TRUE]
            ELSE IF isObject(value)
            THEN LET r == encodeEntries(cs, tr, value.m, <<>>, transferList)
                 IN [message |-> IF r.thrown THEN RangeError
                                 ELSE [t |-> "PLAIN", value |-> Obj(r.encoding)],
                     transfer |-> r.transfer,
                     tr |-> WeakAlias(r.tr, value, r.transfer),
                     thrown |-> r.thrown]
            ELSE IF isArray(value)
            THEN LET r == encodeEntries(cs, tr, value.m, <<>>, transferList)
                 IN [message |-> [t |-> "PLAIN", value |-> Arr(r.encoding)],
                     transfer |-> r.transfer,
                     tr |-> WeakAlias(r.tr, value, r.transfer),
                     thrown |-> r.thrown]
            ELSE [message |-> [t |-> "PLAIN", value |-> value],
                  transfer |-> transferList, tr |-> tr, thrown |-> FALSE]

RECURSIVE decode(_, _)

decode(cs, wire) ==
    IF wire.t = "ENCODED"
    THEN IF MapGet(cs, wire.codec) = NoCodec THEN TypeError
         ELSE CodecDecode(MapGet(cs, wire.codec), wire.value)
    ELSE LET decoding == [i \in 1..Len(wire.value.m) |->
                             Entry(wire.value.m[i].k, decode(cs, wire.value.m[i].v))]
             thrown == \E i \in 1..Len(decoding) : decoding[i].v = TypeError
         IN IF isObject(wire.value)
            THEN IF thrown THEN TypeError ELSE Obj(decoding)
            ELSE IF isArray(wire.value)
            THEN IF thrown THEN TypeError ELSE Arr(decoding)
            ELSE wire.value

-----------------------------------------------------------------------------
(* queueable.Channel, as channel.ts and mailbox.ts use it: a queue of      *)
(* pushed values (pushBuffer) balanced against a queue of unresolved       *)
(* next() calls (pullBuffer).  A pull is the index of the call in the      *)
(* caller's list of outcomes; an outcome is pending, a value, or done.     *)

NewQueue == [closed |-> FALSE, pushBuffer |-> <<>>, pullBuffer |-> <<>>]

Pending == [st |-> "pending", v |-> undefined]

Yield(v) == [st |-> "value", v |-> v]

Done == [st |-> "done", v |-> undefined]

\* queue.push(value): dropped once closed, else resolves the oldest pull,
\* else is buffered.  Returns the queue and the outcomes.
QueuePush(q, outcomes, value) ==
    IF q.closed THEN [q |-> q, outcomes |-> outcomes]
    ELSE IF q.pullBuffer # <<>>
    THEN [q |-> [q EXCEPT !.pullBuffer = Tail(@)],
          outcomes |-> [outcomes EXCEPT ![Head(q.pullBuffer)] = Yield(value)]]
    ELSE [q |-> [q EXCEPT !.pushBuffer = Append(@, value)], outcomes |-> outcomes]

\* queue.next(): done once closed, else the oldest pushed value, else a new
\* unresolved pull
QueueNext(q, outcomes) ==
    IF q.closed THEN [q |-> q, outcomes |-> Append(outcomes, Done)]
    ELSE IF q.pushBuffer # <<>>
    THEN [q |-> [q EXCEPT !.pushBuffer = Tail(@)],
          outcomes |-> Append(outcomes, Yield(Head(q.pushBuffer)))]
    ELSE [q |-> [q EXCEPT !.pullBuffer = Append(@, Len(outcomes) + 1)],
          outcomes |-> Append(outcomes, Pending)]

\* queue.return() and queue.close(): the queue is closed, the pushed values
\* are discarded and every unresolved pull resolves to done
QueueReturn(q, outcomes) ==
    [q |-> [closed |-> TRUE, pushBuffer |-> <<>>, pullBuffer |-> <<>>],
     outcomes |-> [i \in 1..Len(outcomes) |->
                      IF \E j \in 1..Len(q.pullBuffer) : q.pullBuffer[j] = i
                      THEN Done ELSE outcomes[i]]]

-----------------------------------------------------------------------------
(* channel.ts: pair() and class Channel *)

Sides == {1, 2}

Peer(s) == 3 - s

ChannelCodec == [name |-> "Channel", impl |-> 5, handles |-> {"Channel"}]

ChanValues == {Prim("1"), Obj(<<Entry("n", Prim("42"))>>), ArrOf(<<Prim("1")>>), Cyclic}

\* posts counts the postMessage calls made on the port, last holds the
\* arguments of the latest one
NewPort == [inflight |-> <<>>, closed |-> FALSE, posts |-> 0, last |-> None]

\* pair(): two Channels over the two ports of a MessageChannel
InitChan ==
    /\ port = [s \in Sides |-> NewPort]
    /\ queue = [s \in Sides |-> NewQueue]
    /\ sent = [s \in Sides |-> <<>>]
    /\ got = [s \in Sides |-> <<>>]
    /\ ended = [s \in Sides |-> "open"]
    /\ slast = [s \in Sides |-> None]

\* port.postMessage(message, transfer): queued at the entangled port unless
\* either end has been closed
postMessage(p, s, message, transfer) ==
    LET called == [p EXCEPT ![s].posts = @ + 1,
                            ![s].last = [message |-> message, transfer |-> transfer]]
    IN IF p[s].closed \/ p[Peer(s)].closed THEN called
       ELSE [called EXCEPT ![Peer(s)].inflight = Append(@, message)]

\* a send that hands the message to the port although encode threw
Send_Mut(s, value) ==
    LET r == encode(codecs, transfers, value)
    IN /\ Len(sent[s]) < MaxSend
       /\ transfers' = r.tr
       /\ slast' = [slast EXCEPT ![s] = [value |-> value, thrown |-> r.thrown,
                                         posts |-> port[s].posts]]
       /\ port' = postMessage(port, s, r.message, r.transfer)
       /\ sent' = [sent EXCEPT ![s] = Append(@, value)]
       /\ UNCHANGED <<queue, got, ended>>
       /\ UNCHANGED <<codecs, live, regs, wop, wx, wenc, wdec, wreg, given>>
       /\ UNCHANGED exceptWireChan

\* Channel.send(value): wire.encode(value), then port.postMessage; an error
\* thrown by encode leaves send before the second statement
Send(s, value) ==
    LET r == encode(codecs, transfers, value)
    IN /\ Len(sent[s]) < MaxSend
       /\ transfers' = r.tr
       /\ slast' = [slast EXCEPT ![s] = [value |-> value, thrown |-> r.thrown,
                                         posts |-> port[s].posts]]
       /\ IF r.thrown
          THEN UNCHANGED <<port, sent>>
          ELSE /\ port' = postMessage(port, s, r.message, r.transfer)
               /\ sent' = [sent EXCEPT ![s] = Append(@, value)]
       /\ UNCHANGED <<queue, got, ended>>
       /\ UNCHANGED <<codecs, live, regs, wop, wx, wenc, wdec, wreg, given>>
       /\ UNCHANGED exceptWireChan

\* port.onmessage: queue.push(wire.decode(e.data))
Deliver(s) ==
    /\ ~port[s].closed
    /\ port[s].inflight # <<>>
    /\ LET r == QueuePush(queue[s], got[s], decode(codecs, Head(port[s].inflight)))
       IN /\ queue' = [queue EXCEPT ![s] = r.q]
          /\ got' = [got EXCEPT ![s] = r.outcomes]
    /\ port' = [port EXCEPT ![s].inflight = Tail(@)]
    /\ UNCHANGED <<sent, ended, slast>>
    /\ UNCHANGED exceptChan

\* port.onmessageerror: queue.return(e.data), for a message that could not
\* be deserialized
MessageError(s) ==
    /\ ~port[s].closed
    /\ port[s].inflight # <<>>
    /\ LET r == QueueReturn(queue[s], got[s])
       IN /\ queue' = [queue EXCEPT ![s] = r.q]
          /\ got' = [got EXCEPT ![s] = r.outcomes]
    /\ port' = [port EXCEPT ![s].inflight = Tail(@)]
    /\ ended' = [ended EXCEPT ![s] = IF @ = "open" THEN "messageerror" ELSE @]
    /\ UNCHANGED <<sent, slast>>
    /\ UNCHANGED exceptChan

\* Channel.recv(), and each step of an iteration: this.iter.next()
Recv(s) ==
    /\ Len(got[s]) < MaxRecv
    /\ LET r == QueueNext(queue[s], got[s])
       IN /\ queue' = [queue EXCEPT ![s] = r.q]
          /\ got' = [got EXCEPT ![s] = r.outcomes]
    /\ UNCHANGED <<port, sent, ended, slast>>
    /\ UNCHANGED exceptChan

\* Channel.close(): this.queue.return()
Close(s) ==
    /\ ended[s] # "close"
    /\ LET r == QueueReturn(queue[s], got[s])
       IN /\ queue' = [queue EXCEPT ![s] = r.q]
          /\ got' = [got EXCEPT ![s] = r.outcomes]
    /\ ended' = [ended EXCEPT ![s] = "close"]
    /\ UNCHANGED <<port, sent, slast>>
    /\ UNCHANGED exceptChan

\* this.iter.return(), which a `for await` over the channel calls when its
\* body exits early: the wrap() callback closes the port, then queue.return()
IterReturn(s) ==
    /\ ended[s] = "open"
    /\ port' = [port EXCEPT ![s].inflight = <<>>, ![s].closed = TRUE]
    /\ LET r == QueueReturn(queue[s], got[s])
       IN /\ queue' = [queue EXCEPT ![s] = r.q]
          /\ got' = [got EXCEPT ![s] = r.outcomes]
    /\ ended' = [ended EXCEPT ![s] = "return"]
    /\ UNCHANGED <<sent, slast>>
    /\ UNCHANGED exceptChan

\* the execution contexts: a tab, the dedicated worker it spawns, a shared
\* worker and a second tab
Tab == 1

Child == 2

Shared == 3

Tab2 == 4

Shared2 == 5

Contexts == {Tab, Child, Shared, Tab2, Shared2}

\* no context runs a stage and no worker was spawned
InitNoStage ==
    /\ selfLIVE = [c \in Contexts |-> None]
    /\ uuid = 0
    /\ links = [c \in Contexts |-> [p \in Contexts |-> [st |-> "none", wire |-> {}]]]
    /\ wires = [c \in Contexts |-> [p \in Contexts |-> <<>>]]
    /\ emitted = [c \in Contexts |-> <<>>]
    /\ acted = {}
    /\ sop = None
    /\ routine = None
    /\ selected = None

\* no function has been remoted
InitNoRemote ==
    /\ rtarget = "none"
    /\ rops = <<>>
    /\ rbuffer = <<>>
    /\ rready = <<>>
    /\ hst = "none"
    /\ hpull = 0
    /\ hlog = <<>>

\* mailbox.ts: the fields of a new Mailbox, before any message or call
InitMbox ==
    /\ mchannel = NewQueue
    /\ pulls = <<>>
    /\ buffer = <<>>
    /\ arrived = <<>>
    /\ calls = <<>>
    /\ ready = <<>>
    /\ mlast = 0
    /\ mended = "open"
    /\ input = "open"

InitChannel ==
    /\ codecs = <<ChannelCodec>>
    /\ transfers = EmptyWeakMap
    /\ live = NoWire
    /\ regs = 0
    /\ wop = "init"
    /\ wx = None
    /\ wenc = None
    /\ wdec = None
    /\ wreg = NoCodec
    /\ given = EmptyWeakMap
    /\ InitChan
    /\ InitMbox
    /\ InitNoRemote
    /\ InitNoStage

NextChannel ==
    \/ \E s \in Sides, value \in ChanValues : Send(s, value)
    \/ \E s \in Sides : Deliver(s)
    \/ \E s \in Sides : MessageError(s)
    \/ \E s \in Sides : Recv(s)
    \/ \E s \in Sides : Close(s)
    \/ \E s \in Sides : IterReturn(s)

SpecChannel == InitChannel /\ [][NextChannel]_vars

\* the sending half alone: send() on either side, delivery at the peer, and
\* ports closed by an iterator that was returned
NextSend ==
    \/ \E s \in Sides, value \in ChanValues : Send(s, value)
    \/ \E s \in Sides : Deliver(s)
    \/ \E s \in Sides : IterReturn(s)

SpecSend == InitChannel /\ [][NextSend]_vars

-----------------------------------------------------------------------------
(* mailbox.ts: class Mailbox, constructed without a filter and receiving   *)
(* from one channel.  A message is the Select payload {channel, value}; id *)
(* is the identity of that object, its position in the arrival order.      *)

Payload(n, value) == [channel |-> "in", value |-> value, id |-> n]

MsgValues == {Prim("1"), Prim("skip")}

\* the FilterFn predicates handed to match: typeof x === "number" / "string"
Preds == {"number", "string"}

Holds(pred, value) ==
    IF pred = "number" THEN value.p \in {"1", "2"} ELSE value.p \in {"skip"}

\* what a call completed with: a message, undefined, or a thrown TypeError
Msg(payload) == [kind |-> "msg", id |-> payload.id, value |-> payload.value]

Undef == [kind |-> "undefined", id |-> 0, value |-> undefined]

Threw == [kind |-> "TypeError", id |-> 0, value |-> undefined]

NoRes == [kind |-> "none", id |-> 0, value |-> undefined]

Call(op, pred, st, pull, res) ==
    [op |-> op, pred |-> pred, st |-> st, pull |-> pull, res |-> res]

\* the call awaiting the given next()
Puller(cs, pull) == CHOOSE c \in 1..Len(cs) : cs[c].st = "waiting" /\ cs[c].pull = pull

\* the calls whose next() a step settled, oldest next() first
Settled(before, after, cs) ==
    LET RECURSIVE Collect(_)
        Collect(i) ==
            IF i > Len(before) THEN <<>>
            ELSE IF before[i] = Pending /\ after[i] # Pending
            THEN <<Puller(cs, i)>> \o Collect(i + 1)
            ELSE Collect(i + 1)
    IN Collect(1)

\* this.channel.next() made by call c: the new pull, and c made ready at
\* once when the outcome is already settled
MboxNext(c) ==
    LET r == QueueNext(mchannel, pulls)
    IN [q |-> r.q, pulls |-> r.outcomes, pull |-> Len(r.outcomes),
        now |-> IF r.outcomes[Len(r.outcomes)] # Pending THEN <<c>> ELSE <<>>]

\* Mailbox.receiver: one turn of the loop over the received channel,
\* this.channel.push({channel, value})
Arrive(value) ==
    /\ input = "open"
    /\ Len(arrived) < MaxArrive
    /\ LET payload == Payload(Len(arrived) + 1, value)
           r == QueuePush(mchannel, pulls, payload)
       IN /\ arrived' = Append(arrived, payload)
          /\ mchannel' = r.q
          /\ pulls' = r.outcomes
          /\ ready' = ready \o Settled(pulls, r.outcomes, calls)
    /\ mlast' = 0
    /\ UNCHANGED <<buffer, calls, mended, input>>
    /\ UNCHANGED exceptMbox

\* the received channel ends: the loop of Mailbox.receiver finishes
InputEnd ==
    /\ input = "open"
    /\ input' = "ended"
    /\ mlast' = 0
    /\ UNCHANGED <<mchannel, pulls, buffer, arrived, calls, ready, mended>>
    /\ UNCHANGED exceptMbox

\* Mailbox.recv(), up to its await
CallRecv ==
    /\ Len(calls) < MaxCalls
    /\ IF buffer = <<>>
       THEN LET n == MboxNext(Len(calls) + 1)
            IN /\ mchannel' = n.q
               /\ pulls' = n.pulls
               /\ calls' = Append(calls, Call("recv", "", "waiting", n.pull, NoRes))
               /\ ready' = ready \o n.now
               /\ mlast' = 0
               /\ UNCHANGED buffer
       ELSE /\ buffer' = Tail(buffer)
            /\ calls' = Append(calls, Call("recv", "", "done", 0, Msg(Head(buffer))))
            /\ mlast' = Len(calls) + 1
            /\ UNCHANGED <<mchannel, pulls, ready>>
    /\ UNCHANGED <<arrived, mended, input>>
    /\ UNCHANGED exceptMbox

\* index of the first buffered message that satisfies pred, 0 if none
FirstMatch(buf, pred) ==
    IF \E i \in 1..Len(buf) : Holds(pred, buf[i].value)
    THEN CHOOSE i \in 1..Len(buf) :
             /\ Holds(pred, buf[i].value)
             /\ \A j \in 1..(i - 1) : ~Holds(pred, buf[j].value)
    ELSE 0

\* Array.prototype.splice(i, 1)
Splice(buf, i) == [j \in 1..(Len(buf) - 1) |-> IF j < i THEN buf[j] ELSE buf[j + 1]]

\* Mailbox.match(pred), up to its first await: the scan of the buffer, then
\* the first next() of the `for await` over this.channel
CallMatch(pred) ==
    /\ Len(calls) < MaxCalls
    /\ LET i == FirstMatch(buffer, pred)
       IN IF i # 0
          THEN /\ buffer' = Splice(buffer, i)
               /\ calls' = Append(calls, Call("match", pred, "done", 0, Msg(buffer[i])))
               /\ mlast' = Len(calls) + 1
               /\ UNCHANGED <<mchannel, pulls, ready>>
          ELSE LET n == MboxNext(Len(calls) + 1)
               IN /\ mchannel' = n.q
                  /\ pulls' = n.pulls
                  /\ calls' = Append(calls, Call("match", pred, "waiting", n.pull, NoRes))
                  /\ ready' = ready \o n.now
                  /\ mlast' = 0
                  /\ UNCHANGED buffer
    /\ UNCHANGED <<arrived, mended, input>>
    /\ UNCHANGED exceptMbox

\* recv() resumes with the result of next(): `.value.value` of a done
\* result throws
ResumeRecv ==
    /\ ready # <<>>
    /\ calls[Head(ready)].op = "recv"
    /\ LET c == Head(ready)
           out == pulls[calls[c].pull]
       IN calls' = [calls EXCEPT ![c].st = "done",
                                 ![c].res = IF out = Done THEN Threw ELSE Msg(out.v)]
    /\ ready' = Tail(ready)
    /\ mlast' = Head(ready)
    /\ UNCHANGED <<mchannel, pulls, buffer, arrived, mended, input>>
    /\ UNCHANGED exceptMbox

\* match() resumes with the result of next(): the loop ends on done and the
\* function returns undefined; a matching message is returned, and leaving
\* the `for await` that way calls this.channel.return(); any other message
\* is pushed on the buffer and the loop calls next() again
ResumeMatch ==
    /\ ready # <<>>
    /\ calls[Head(ready)].op = "match"
    /\ LET c == Head(ready)
           out == pulls[calls[c].pull]
       IN IF out = Done
          THEN /\ calls' = [calls EXCEPT ![c].st = "done", ![c].res = Undef]
               /\ ready' = Tail(ready)
               /\ mlast' = c
               /\ UNCHANGED <<mchannel, pulls, buffer, mended>>
          ELSE IF Holds(calls[c].pred, out.v.value)
          THEN LET r == QueueReturn(mchannel, pulls)
               IN /\ calls' = [calls EXCEPT ![c].st = "done", ![c].res = Msg(out.v)]
                  /\ mchannel' = r.q
                  /\ pulls' = r.outcomes
                  /\ ready' = Tail(ready) \o Settled(pulls, r.outcomes, calls)
                  /\ mended' = IF mended = "open" THEN "return" ELSE mended
                  /\ mlast' = c
                  /\ UNCHANGED buffer
          ELSE LET r == QueueNext(mchannel, pulls)
               IN /\ buffer' = Append(buffer, out.v)
                  /\ mchannel' = r.q
                  /\ pulls' = r.outcomes
                  /\ calls' = [calls EXCEPT ![c].pull = Len(r.outcomes)]
                  /\ ready' = Tail(ready) \o
                                (IF r.outcomes[Len(r.outcomes)] # Pending THEN <<c>> ELSE <<>>)
                  /\ mlast' = 0
                  /\ UNCHANGED mended
    /\ UNCHANGED <<arrived, input>>
    /\ UNCHANGED exceptMbox

\* Mailbox.close(): this.channel.close()
MboxClose ==
    /\ mended # "close"
    /\ LET r == QueueReturn(mchannel, pulls)
       IN /\ mchannel' = r.q
          /\ pulls' = r.outcomes
          /\ ready' = ready \o Settled(pulls, r.outcomes, calls)
    /\ mended' = "close"
    /\ mlast' = 0
    /\ UNCHANGED <<buffer, arrived, calls, input>>
    /\ UNCHANGED exceptMbox

NextMailbox ==
    \/ \E value \in MsgValues : Arrive(value)
    \/ InputEnd
    \/ CallRecv
    \/ \E pred \in Preds : CallMatch(pred)
    \/ ResumeRecv
    \/ ResumeMatch
    \/ MboxClose

-----------------------------------------------------------------------------
(* remote.ts: remote(channel), the proxy, and spawn(value), the handler.   *)
(* The handler owns side 1 of the pair (master), the proxy's Mailbox wraps *)
(* side 2 (slave).  The Mailbox is the one that remote.ts constructs, with *)
(* the channel as its argument: its match() iterates the channel itself.   *)

Master == 1

Slave == 2

\* uuid(): a fresh id for the n-th operation
IdOf(n) == CASE n = 1 -> "id1" [] n = 2 -> "id2" [] n = 3 -> "id3" [] OTHER -> "idn"

Types == {"CONSTRUCT", "APPLY", "GET", "SET", "DELETE"}

\* the functions handed to spawn(): add = (x, y) => x + y and
\* boom = () => { throw Error("boom") }
Targets == {"add", "boom"}

\* the arguments of the proxy operations: the argument list of a call, the
\* property of a get/set/delete, the value of a set
CallArgs == <<Prim("2"), Prim("3")>>

\* protocol.ts encode(value) of a number or string, which no codec handles
protoEncode(value) == Obj(<<Entry("type", Prim("PLAIN")), Entry("value", value)>>)

\* encodeAll(args): the arguments encoded one by one, as an array
encodeAll(args) == ArrOf([i \in 1..Len(args) |-> protoEncode(args[i])])

\* the properties a get asks for: the length of the function, and x, the
\* property that set and deleteProperty write
Props == {"length", "x"}

\* the request object of an operation
Request(id, type, prop) ==
    IF type \in {"CONSTRUCT", "APPLY"}
    THEN Obj(<<Entry("id", Prim(id)), Entry("type", Prim(type)),
               Entry("arguments", encodeAll(CallArgs))>>)
    ELSE IF type = "SET"
    THEN Obj(<<Entry("id", Prim(id)), Entry("type", Prim(type)),
               Entry("prop", Prim("x")), Entry("value", protoEncode(Prim("1")))>>)
    ELSE IF type = "GET"
    THEN Obj(<<Entry("id", Prim(id)), Entry("type", Prim(type)), Entry("prop", Prim(prop))>>)
    ELSE Obj(<<Entry("id", Prim(id)), Entry("type", Prim(type)), Entry("prop", Prim("x"))>>)

\* obj[k]
Field(obj, k) ==
    IF \E i \in 1..Len(obj.m) : obj.m[i].k = k
    THEN obj.m[CHOOSE i \in 1..Len(obj.m) : obj.m[i].k = k].v
    ELSE undefined

\* the argument list Reflect.apply builds from its third argument: the
\* elements of an array; nothing for an object that has no length
ListFromArrayLike(v) ==
    IF v.t = "arr" THEN [i \in 1..Len(v.m) |-> v.m[i].v] ELSE <<>>

\* x + y
Plus(x, y) ==
    IF x = Prim("2") /\ y = Prim("3") THEN Prim("5")
    ELSE IF isObject(x) \/ isObject(y) THEN Prim("[object Object][object Object]")
    ELSE Prim("NaN")

Nth(list, i) == IF i <= Len(list) THEN list[i] ELSE undefined

\* the property x of the target after the requests the handler has served:
\* what the last Reflect.set was given as its value, nothing after a
\* Reflect.deleteProperty or before any set
Stored ==
    LET wrote == {i \in 1..Len(hlog) :
                     /\ ~hlog[i].threw
                     /\ Field(hlog[i].request, "type").p \in {"SET", "DELETE"}}
        last == CHOOSE i \in wrote : \A j \in wrote : j <= i
    IN IF wrote = {} THEN undefined
       ELSE IF Field(hlog[last].request, "type").p = "DELETE" THEN undefined
       ELSE Field(hlog[last].request, "value")

\* the reflective operation of the handler on the target: whether it
\* throws, and the value it returns.  Both targets are arrow functions,
\* which Reflect.construct rejects.
Reflect(target, msg) ==
    LET type == Field(msg, "type").p
        list == ListFromArrayLike(Field(msg, "arguments"))
    IN IF type = "CONSTRUCT" THEN [threw |-> TRUE, value |-> undefined]
       ELSE IF type = "APPLY"
       THEN IF ~isObject(Field(msg, "arguments")) \/ target = "boom"
            THEN [threw |-> TRUE, value |-> undefined]
            ELSE [threw |-> FALSE, value |-> Plus(Nth(list, 1), Nth(list, 2))]
       ELSE IF type = "GET"
       THEN [threw |-> FALSE,
             value |-> IF Field(msg, "prop").p = "x" THEN Stored
                       ELSE IF target = "add" THEN Prim("2") ELSE Prim("0")]
       ELSE [threw |-> FALSE, value |-> undefined]

\* the response object of the handler
Response(msg, value) ==
    IF Field(msg, "type").p \in {"CONSTRUCT", "APPLY", "GET"}
    THEN Obj(<<Entry("id", Field(msg, "id")), Entry("type", Field(msg, "type")),
               Entry("value", protoEncode(value))>>)
    ELSE Obj(<<Entry("id", Field(msg, "id")), Entry("type", Field(msg, "type"))>>)

Op(type, awaited, st, mst, pull, res, from) ==
    [type |-> type, awaited |-> awaited, st |-> st, mst |-> mst, pull |-> pull,
     res |-> res, from |-> from]

\* the proxy match awaiting the given next()
PullerOp(ops, pull) ==
    CHOOSE c \in 1..Len(ops) : ops[c].mst = "waiting" /\ ops[c].pull = pull

\* the proxy matches whose next() a step settled, oldest next() first
SettledOps(before, after, ops) ==
    LET RECURSIVE Collect(_)
        Collect(i) ==
            IF i > Len(before) THEN <<>>
            ELSE IF before[i] = Pending /\ after[i] # Pending
            THEN <<PullerOp(ops, i)>> \o Collect(i + 1)
            ELSE Collect(i + 1)
    IN Collect(1)

\* spawn(value): pair(), then handle(master), whose master.recv() is the
\* first next() on the master's queue; the proxy is remote(slave)
InitRemote ==
    /\ codecs = <<ChannelCodec>>
    /\ transfers = EmptyWeakMap
    /\ live = NoWire
    /\ regs = 0
    /\ wop = "init"
    /\ wx = None
    /\ wenc = None
    /\ wdec = None
    /\ wreg = NoCodec
    /\ given = EmptyWeakMap
    /\ port = [s \in Sides |-> NewPort]
    /\ queue = [s \in Sides |-> IF s = Master THEN QueueNext(NewQueue, <<>>).q ELSE NewQueue]
    /\ got = [s \in Sides |-> IF s = Master THEN QueueNext(NewQueue, <<>>).outcomes ELSE <<>>]
    /\ sent = [s \in Sides |-> <<>>]
    /\ ended = [s \in Sides |-> "open"]
    /\ slast = [s \in Sides |-> None]
    /\ InitMbox
    /\ InitNoStage
    /\ rtarget \in Targets
    /\ rops = <<>>
    /\ rbuffer = <<>>
    /\ rready = <<>>
    /\ hst = "listening"
    /\ hpull = 1
    /\ hlog = <<>>

\* a trap of the proxy, up to its first await: the request is built and
\* sent with mbox.send, then mbox.match(msg => msg.id == id) scans the buffer
\* and starts to iterate the channel.  construct, apply and get await the
\* match; set and deleteProperty return true without awaiting it.
ProxyCall(type, prop) ==
    LET c == Len(rops) + 1
        message == Request(IdOf(c), type, prop)
        e == encode(codecs, transfers, message)
        awaited == type \in {"CONSTRUCT", "APPLY", "GET"}
        found == \E i \in 1..Len(rbuffer) : Field(rbuffer[i], "id").p = IdOf(c)
        n == QueueNext(queue[Slave], got[Slave])
        pull == Len(n.outcomes)
    IN /\ Len(rops) < MaxOps
       /\ transfers' = e.tr
       /\ port' = postMessage(port, Slave, e.message, e.transfer)
       /\ sent' = [sent EXCEPT ![Slave] = Append(@, message)]
       /\ slast' = [slast EXCEPT ![Slave] = [value |-> message, thrown |-> FALSE,
                                             posts |-> port[Slave].posts]]
       /\ IF found
          THEN LET msg == rbuffer[CHOOSE i \in 1..Len(rbuffer) :
                                      Field(rbuffer[i], "id").p = IdOf(c)]
               IN /\ rops' = Append(rops, Op(type, awaited,
                                              IF awaited THEN "value" ELSE "true", "done",
                                              0, Field(msg, "value"), Field(msg, "id").p))
                  /\ UNCHANGED <<queue, got, rready>>
          ELSE /\ queue' = [queue EXCEPT ![Slave] = n.q]
               /\ got' = [got EXCEPT ![Slave] = n.outcomes]
               /\ rops' = Append(rops, Op(type, awaited,
                                           IF awaited THEN "pending" ELSE "true", "waiting",
                                           pull, undefined, ""))
               /\ rready' = rready \o (IF n.outcomes[pull] # Pending THEN <<c>> ELSE <<>>)
       /\ UNCHANGED <<ended, rtarget, rbuffer, hst, hpull, hlog>>
       /\ UNCHANGED <<codecs, live, regs, wop, wx, wenc, wdec, wreg, given>>
       /\ UNCHANGED exceptRemote

\* the match of a proxy operation resumes with the result of next().  A
\* done result ends the loop: match returns undefined and an awaiting trap
\* throws on `response.value`.  The message with the operation's id is
\* returned, and leaving the `for await` calls the channel iterator's
\* return(): the slave port and its queue are closed.  Any other message
\* is pushed on the buffer and next() is called again.
ProxyResume ==
    /\ rready # <<>>
    /\ LET c == Head(rready)
           out == got[Slave][rops[c].pull]
       IN IF out = Done
          THEN /\ rops' = [rops EXCEPT ![c].mst = "done",
                                       ![c].st = IF rops[c].awaited THEN "TypeError" ELSE @]
               /\ rready' = Tail(rready)
               /\ UNCHANGED <<port, queue, got, ended, rbuffer>>
          ELSE IF Field(out.v, "id").p = IdOf(c)
          THEN LET r == QueueReturn(queue[Slave], got[Slave])
               IN /\ rops' = [rops EXCEPT ![c].mst = "done",
                                          ![c].st = IF rops[c].awaited THEN "value" ELSE @,
                                          ![c].res = Field(out.v, "value"),
                                          ![c].from = Field(out.v, "id").p]
                  /\ port' = [port EXCEPT ![Slave].inflight = <<>>, ![Slave].closed = TRUE]
                  /\ queue' = [queue EXCEPT ![Slave] = r.q]
                  /\ got' = [got EXCEPT ![Slave] = r.outcomes]
                  /\ ended' = [ended EXCEPT ![Slave] = IF @ = "open" THEN "return" ELSE @]
                  /\ rready' = Tail(rready) \o SettledOps(got[Slave], r.outcomes, rops)
                  /\ UNCHANGED rbuffer
          ELSE LET n == QueueNext(queue[Slave], got[Slave])
               IN /\ rbuffer' = Append(rbuffer, out.v)
                  /\ queue' = [queue EXCEPT ![Slave] = n.q]
                  /\ got' = [got EXCEPT ![Slave] = n.outcomes]
                  /\ rops' = [rops EXCEPT ![c].pull = Len(n.outcomes)]
                  /\ rready' = Tail(rready) \o
                                 (IF n.outcomes[Len(n.outcomes)] # Pending THEN <<c>> ELSE <<>>)
                  /\ UNCHANGED <<port, ended>>
    /\ UNCHANGED <<sent, slast, rtarget, hst, hpull, hlog>>
    /\ UNCHANGED wireVars
    /\ UNCHANGED exceptRemote

\* the callback that handle() passed to master.recv().then: the reflective
\* operation, the response sent on master, then handle(channel) again.  An
\* exception (the operation throws, or msg is undefined because the queue
\* has ended) leaves the callback at once: nothing is sent and handle is not
\* called again.
HandlerStep ==
    /\ hst = "listening"
    /\ got[Master][hpull] # Pending
    /\ LET out == got[Master][hpull]
           msg == out.v
           r == Reflect(rtarget, msg)
           message == Response(msg, r.value)
           e == encode(codecs, transfers, message)
           n == QueueNext(queue[Master], got[Master])
       IN IF out = Done
          THEN /\ hst' = "dead"
               /\ UNCHANGED <<transfers, port, queue, got, sent, slast, hpull, hlog>>
          ELSE IF r.threw
          THEN /\ hst' = "dead"
               /\ hlog' = Append(hlog, [request |-> msg, threw |-> TRUE, response |-> None])
               /\ UNCHANGED <<transfers, port, queue, got, sent, slast, hpull>>
          ELSE /\ transfers' = e.tr
               /\ port' = postMessage(port, Master, e.message, e.transfer)
               /\ sent' = [sent EXCEPT ![Master] = Append(@, message)]
               /\ slast' = [slast EXCEPT ![Master] = [value |-> message, thrown |-> FALSE,
                                                      posts |-> port[Master].posts]]
               /\ queue' = [queue EXCEPT ![Master] = n.q]
               /\ got' = [got EXCEPT ![Master] = n.outcomes]
               /\ hpull' = Len(n.outcomes)
               /\ hlog' = Append(hlog, [request |-> msg, threw |-> FALSE,
                                        response |-> message])
               /\ UNCHANGED hst
    /\ UNCHANGED <<ended, rtarget, rops, rbuffer, rready>>
    /\ UNCHANGED <<codecs, live, regs, wop, wx, wenc, wdec, wreg, given>>
    /\ UNCHANGED exceptRemote

\* port.onmessage of the slave: queue.push(wire.decode(e.data)), which
\* settles the oldest next() of the proxy's matches
SlaveMessage ==
    /\ ~port[Slave].closed
    /\ port[Slave].inflight # <<>>
    /\ LET r == QueuePush(queue[Slave], got[Slave],
                          decode(codecs, Head(port[Slave].inflight)))
       IN /\ queue' = [queue EXCEPT ![Slave] = r.q]
          /\ got' = [got EXCEPT ![Slave] = r.outcomes]
          /\ rready' = rready \o SettledOps(got[Slave], r.outcomes, rops)
    /\ port' = [port EXCEPT ![Slave].inflight = Tail(@)]
    /\ UNCHANGED <<sent, ended, slast, rtarget, rops, rbuffer, hst, hpull, hlog>>
    /\ UNCHANGED wireVars
    /\ UNCHANGED exceptRemote

NextRemote ==
    \/ \E type \in Types, prop \in Props :
           (type = "GET" \/ prop = "x") /\ ProxyCall(type, prop)
    \/ ProxyResume
    \/ HandlerStep
    \/ Deliver(Master)
    \/ SlaveMessage

SpecRemote == InitRemote /\ [][NextRemote]_vars

-----------------------------------------------------------------------------
(* Inputs of the wire specification *)

C1impl == [name |-> "A", impl |-> 1, handles |-> {"K1"}]
C2impl == [name |-> "B", impl |-> 2, handles |-> {"K1", "K2"}]
C3impl == [name |-> "A", impl |-> 3, handles |-> {"K2"}]
C4impl == [name |-> "S", impl |-> 4, handles |-> {"prim"}]

Codecs == {C1impl, C2impl, C3impl, C4impl}

Atoms == {Prim("1"), Inst("K1", "port1"), Inst("K2", "port2")}

RECURSIVE ValuesOfDepth(_)
ValuesOfDepth(d) ==
    IF d = 0 THEN Atoms
    ELSE LET below == ValuesOfDepth(d - 1)
         IN below \cup {Obj(<<>>), ArrOf(<<>>)}
                  \cup {Obj(<<Entry("a", v)>>) : v \in below}
                  \cup {ArrOf(<<v>>) : v \in below}
                  \cup {ArrOf(<<v, w>>) : v \in Atoms, w \in Atoms}

Values == ValuesOfDepth(MaxDepth)


-----------------------------------------------------------------------------
(* Wire operations *)

InitWire ==
    /\ codecs = <<>>
    /\ transfers = EmptyWeakMap
    /\ live = NoWire
    /\ regs = 0
    /\ wop = "init"
    /\ wx = None
    /\ wenc = None
    /\ wdec = None
    /\ wreg = NoCodec
    /\ given = EmptyWeakMap
    /\ InitChan
    /\ InitMbox
    /\ InitNoRemote
    /\ InitNoStage

\* codec(c): the exported registration function
Codec(c) ==
    /\ regs < MaxReg
    /\ regs' = regs + 1
    /\ codecs' = MapSet(codecs, c)
    /\ wop' = "codec"
    /\ wreg' = c
    /\ UNCHANGED <<transfers, live, wx, wenc, wdec, given>>
    /\ UNCHANGED exceptWire

\* live().codec(c): registration on the Wire instance
WireCodec(c) ==
    /\ regs < MaxReg
    /\ regs' = regs + 1
    /\ live' = [Live(live, codecs) EXCEPT !.codecs = MapSet(@, c)]
    /\ wop' = "codec"
    /\ wreg' = c
    /\ UNCHANGED <<codecs, transfers, wx, wenc, wdec, given>>
    /\ UNCHANGED exceptWire

\* encode(value) == live().encode(value)
Encode(value) ==
    LET lv == Live(live, codecs)
        r == WireEncode(lv.codecs, lv.transfers, value)
    IN /\ Len(r.env.marker) <= MaxMarker
       /\ live' = [lv EXCEPT !.transfers = r.tr]
       /\ wop' = "encode"
       /\ wx' = value
       /\ wenc' = r.env
       /\ wdec' = None
       /\ UNCHANGED <<codecs, transfers, regs, wreg, given>>
       /\ UNCHANGED exceptWire

\* decode(value) == live().decode(value), applied to the last envelope
Decode ==
    LET lv == Live(live, codecs)
    IN /\ wenc # None
       /\ live' = lv
       /\ wop' = "decode"
       /\ wdec' = WireDecode(lv.codecs, wenc)
       /\ UNCHANGED <<codecs, transfers, regs, wx, wenc, wreg, given>>
       /\ UNCHANGED exceptWire

\* the values handed to transfer(): the objects among the inputs
TransferValues ==
    {Inst("K1", "port1"), Obj(<<Entry("a", Inst("K1", "port1"))>>),
     ArrOf(<<Inst("K1", "port1"), Inst("K1", "port1")>>)}

TransferLists == {<<"buf1">>}

\* Map.prototype.set on the WeakMap: the stored list is the caller's array
WeakSet(tr, value, list) ==
    [v \in DOMAIN tr \cup {value} |-> IF v = value THEN list ELSE tr[v]]

\* live().transfer(value, list)
WireTransfer(value, list) ==
    LET lv == Live(live, codecs)
    IN /\ live' = [lv EXCEPT !.transfers = WeakSet(@, value, list)]
       /\ given' = WeakSet(given, value, list)
       /\ wop' = "transfer"
       /\ UNCHANGED <<codecs, transfers, regs, wx, wenc, wdec, wreg>>
       /\ UNCHANGED exceptWire

NextWire ==
    \/ \E c \in Codecs : Codec(c)
    \/ \E c \in Codecs : WireCodec(c)
    \/ \E value \in Values : Encode(value)
    \/ Decode

SpecWire == InitWire /\ [][NextWire]_vars

\* the transferables of the Wire: transfer() and encode() calls, with the
\* codecs A (for K1, then for K2 once it is registered again) on the Wire
NextTransfer ==
    \/ \E c \in {C1impl, C3impl} : WireCodec(c)
    \/ \E value \in TransferValues : \E list \in TransferLists : WireTransfer(value, list)
    \/ \E value \in TransferValues : Encode(value)

SpecTransfer == InitWire /\ [][NextTransfer]_vars

\* a new mailbox, with no codec registered and an unused pair of channels
InitMailbox == InitWire

SpecMailbox == InitMailbox /\ [][NextMailbox]_vars

\* ---------------------------------------------------------------------
\* stage.ts: the Live stage of an execution context, its links and ready()
\* ---------------------------------------------------------------------

\* worker.ts: isTab(self), isDedicated(self), isShared(self)
isTab(c) == c \in {Tab, Tab2}

isDedicated(c) == c = Child

isShared(c) == c \in {Shared, Shared2}

\* the contexts of a tab and the dedicated worker it spawns
Ctx == {Tab, Child}

\* the script of a context runs once the context exists: a worker exists
\* once a tab made it
Runs(c) == isTab(c) \/ \E t \in Contexts : links[t][c].st # "none"

\* how many times uuid() may be called
MaxUuid == 5

\* how many times uuid() may be called while the stages are booting
MaxBoot == 4

\* uuid(): the n-th identifier
Uuid(n) == <<"u1", "u2", "u3", "u4", "u5", "u6", "u7", "u8">>[n]

\* the names scripts register and look up
Names == {"n"}

\* Message.Stage, Message.WhoisActor, Message.Actor and Message.Send: a
\* field a packet does not have is "" or None
Packet(type, stage, id, whois, actor) ==
    [type |-> type, stage |-> stage, id |-> id, whois |-> whois, actor |-> actor,
     to |-> None, message |-> ""]

StagePacket(stage) == Packet("STAGE", stage, "", "", None)

\* new Live(): the fields of the constructor
\* and of the Mailbox over fromQueue(this.messages): the queue with the
\* outcomes of its next() calls, the buffer of the Mailbox, the actor()
\* calls that await a match, and those whose next() has settled
NewLive(id) ==
    [id |-> id, isReady |-> FALSE, stages |-> <<>>,
     names |-> [n \in Names |-> ""], actors |-> <<>>,
     messages |-> NewQueue, pulls |-> <<>>, buffer |-> <<>>,
     lookups |-> <<>>, ready |-> <<>>]

\* live() that makes a new stage on every call
StageLive_Mut(c) == [inst |-> NewLive(Uuid(uuid + 1)), uuid |-> uuid + 1, fresh |-> TRUE]

\* live(): the stage of context c, made on the first call
StageLive(c) ==
    IF selfLIVE[c] = None
    THEN [inst |-> NewLive(Uuid(uuid + 1)), uuid |-> uuid + 1, fresh |-> TRUE]
    ELSE [inst |-> selfLIVE[c], uuid |-> uuid, fresh |-> FALSE]

\* Channel.wire.codec(c): the channel's own registry takes the codec
ChannelWireCodec(wire, name) == wire \cup {name}

\* link() up to its await of channel.recv()
LinkBegin == [st |-> "identify", wire |-> ChannelWireCodec({}, "Remote.Value")]

\* the links after live(): the constructor of a dedicated worker's stage
\* links worker.channel(), the channel to the tab that made it, as its
\* parent; the one of a shared worker listens for connections
Constructed(c, r) ==
    IF r.fresh /\ isDedicated(c) THEN [links EXCEPT ![c][Tab] = LinkBegin] ELSE links

\* the STAGE packets to the parents among stages
RECURSIVE ToParents(_, _)
ToParents(stages, id) ==
    IF stages = <<>> THEN <<>>
    ELSE (IF Head(stages).as = "PARENT"
          THEN <<[to |-> Head(stages).id, via |-> Head(stages).via, msg |-> StagePacket(id)]>>
          ELSE <<>>) \o ToParents(Tail(stages), id)

\* this.stages.get(parent).instance.send(STAGE)
ToParent(l, parent) ==
    LET i == CHOOSE i \in 1..Len(l.stages) : l.stages[i].id = parent
    IN <<[to |-> parent, via |-> l.stages[i].via, msg |-> StagePacket(l.id)]>>

\* ready() that does not look at isReady before it marks and sends
LiveReady_Mut(l, parent) ==
    IF parent # ""
    THEN [live |-> l, sends |-> IF l.isReady THEN ToParent(l, parent) ELSE <<>>]
    ELSE [live |-> [l EXCEPT !.isReady = TRUE], sends |-> ToParents(l.stages, l.id)]

\* Live.ready(parent?): the stage afterwards and the packets it sends
LiveReady(l, parent) ==
    IF parent # ""
    THEN [live |-> l, sends |-> IF l.isReady THEN ToParent(l, parent) ELSE <<>>]
    ELSE IF l.isReady
         THEN [live |-> l, sends |-> <<>>]
         ELSE [live |-> [l EXCEPT !.isReady = TRUE], sends |-> ToParents(l.stages, l.id)]

\* Map.set on the stages map: the stage id, its role and the context at
\* the other end of its channel
StagesSet(stages, id, as, via) ==
    IF \E i \in 1..Len(stages) : stages[i].id = id
    THEN [i \in 1..Len(stages) |->
             IF stages[i].id = id THEN [id |-> id, as |-> as, via |-> via] ELSE stages[i]]
    ELSE Append(stages, [id |-> id, as |-> as, via |-> via])

\* Remote.send for each of sends, in order: the packet goes to the context
\* at the other end of the channel
Posted(w, c, sends) ==
    [x \in Contexts |->
        [y \in Contexts |->
            IF y # c THEN w[x][y]
            ELSE LET mine == SelectSeq(sends, LAMBDA s : s.via = x)
                 IN w[x][y] \o [i \in 1..Len(mine) |-> mine[i].msg]]]

\* a module-level function ran on the stage live() gave it; was tells
\* whether that stage was ready, and tick sets two calls in a row apart
Called(c, fn, r) ==
    /\ acted' = acted \cup {[ctx |-> c, fn |-> fn, id |-> r.inst.id]}
    /\ sop' = [ctx |-> c, fn |-> fn, id |-> r.inst.id, was |-> r.inst.isReady,
               tick |-> IF sop = None THEN 0 ELSE 1 - sop.tick]

\* live()
StageLiveCall(c) ==
    /\ Runs(c)
    /\ LET r == StageLive(c)
       IN /\ r.uuid <= MaxUuid
          /\ selfLIVE' = [selfLIVE EXCEPT ![c] = r.inst]
          /\ uuid' = r.uuid
          /\ links' = Constructed(c, r)
          /\ Called(c, "live", r)
    /\ UNCHANGED <<wires, emitted>>
    /\ UNCHANGED exceptStage

\* ready()
StageReady(c) ==
    /\ Runs(c)
    /\ LET r == StageLive(c)
           d == LiveReady(r.inst, "")
       IN /\ r.uuid <= MaxUuid
          /\ selfLIVE' = [selfLIVE EXCEPT ![c] = d.live]
          /\ uuid' = r.uuid
          /\ links' = Constructed(c, r)
          /\ wires' = Posted(wires, c, d.sends)
          /\ emitted' = [emitted EXCEPT ![c] = @ \o d.sends]
          /\ Called(c, "ready", r)
    /\ UNCHANGED exceptStage

\* dedicated(source) and shared(source), up to the await in link(): tab t
\* makes worker w, or connects to the shared worker, and names itself
Hello(t, w, fn) ==
    /\ links[t][w].st = "none"
    /\ LET r == StageLive(t)
           hello == <<[to |-> "", via |-> w, msg |-> StagePacket(r.inst.id)]>>
       IN /\ r.uuid <= MaxUuid
          /\ selfLIVE' = [selfLIVE EXCEPT ![t] = r.inst]
          /\ uuid' = r.uuid
          /\ links' = [links EXCEPT ![t][w] = LinkBegin]
          /\ wires' = Posted(wires, t, hello)
          /\ emitted' = [emitted EXCEPT ![t] = @ \o hello]
          /\ Called(t, fn, r)
    /\ UNCHANGED exceptStage

StageDedicated == Hello(Tab, Child, "dedicated")

StageShared(t) == Hello(t, Shared, "shared")

\* the constructor's loop over worker.channels(): the stage of the shared
\* worker links the channel of a connection as a parent
StageConnect(t) ==
    /\ selfLIVE[Shared] # None
    /\ links[t][Shared].st # "none"
    /\ links[Shared][t].st = "none"
    /\ links' = [links EXCEPT ![Shared][t] = LinkBegin]
    /\ UNCHANGED <<selfLIVE, uuid, wires, emitted, acted, sop>>
    /\ UNCHANGED exceptStage

\* an entry of the actors map: a LocalActor with the messages sent to it,
\* or a RemoteActor
ActorEntry(key, address, local) ==
    [name |-> key, address |-> address, local |-> local, inbox |-> <<>>]

\* Live.spawn(fn): new LocalActor(fn) under a fresh id, stored under that id
LiveSpawn(l, id) ==
    [l EXCEPT !.actors = MapSet(@, ActorEntry(id, [actor |-> id, stage |-> l.id], TRUE))]

\* spawn(fn)
StageSpawn(c) ==
    /\ Runs(c)
    /\ LET r == StageLive(c)
       IN /\ r.uuid + 1 <= MaxUuid
          /\ selfLIVE' = [selfLIVE EXCEPT ![c] = LiveSpawn(r.inst, Uuid(r.uuid + 1))]
          /\ uuid' = r.uuid + 1
          /\ links' = Constructed(c, r)
          /\ Called(c, "spawn", r)
    /\ UNCHANGED <<wires, emitted>>
    /\ UNCHANGED exceptStage

\* register(name, fn) that keeps the first actor registered under a name
StageRegister_Mut(c, name) ==
    /\ Runs(c)
    /\ LET r == StageLive(c)
           act == LiveSpawn(r.inst, Uuid(r.uuid + 1))
       IN /\ r.uuid + 1 <= MaxUuid
          /\ selfLIVE' = [selfLIVE EXCEPT ![c] =
                             IF act.names[name] # "" THEN act
                             ELSE [act EXCEPT !.names[name] = Uuid(r.uuid + 1)]]
          /\ uuid' = r.uuid + 1
          /\ links' = Constructed(c, r)
          /\ Called(c, "register", r)
    /\ UNCHANGED <<wires, emitted>>
    /\ UNCHANGED exceptStage

\* register(name, fn): the spawned actor's id is stored under name
StageRegister(c, name) ==
    /\ Runs(c)
    /\ LET r == StageLive(c)
       IN /\ r.uuid + 1 <= MaxUuid
          /\ selfLIVE' = [selfLIVE EXCEPT ![c] =
                             [LiveSpawn(r.inst, Uuid(r.uuid + 1))
                                 EXCEPT !.names[name] = Uuid(r.uuid + 1)]]
          /\ uuid' = r.uuid + 1
          /\ links' = Constructed(c, r)
          /\ Called(c, "register", r)
    /\ UNCHANGED <<wires, emitted>>
    /\ UNCHANGED exceptStage

\* register(name, act) for act = new LocalActor(fn) that the script built
\* itself: the constructor takes a fresh id and reads the stage's id, and
\* register stores the actor's id under name without calling spawn, so the
\* actors map is left as it is
StageRegisterActor(c, name) ==
    /\ Runs(c)
    /\ selfLIVE[c] # None
    /\ uuid + 1 <= MaxUuid
    /\ selfLIVE' = [selfLIVE EXCEPT ![c].names[name] = Uuid(uuid + 1)]
    /\ uuid' = uuid + 1
    /\ Called(c, "register", StageLive(c))
    /\ UNCHANGED <<links, wires, emitted>>
    /\ UNCHANGED exceptStage

\* the keys of the actors maps: the names looked up and the ids of the
\* actors spawned so far
Whois == Names \cup UNION {{l.actors[i].name : i \in 1..Len(l.actors)} :
                              l \in {selfLIVE[c] : c \in Contexts} \ {None}}

\* actor(id), up to its await: a known actor is returned; any other id is
\* asked for on every link under a fresh request id, and match() on the
\* stage's Mailbox finds no buffered packet with that id and calls next()
StageActor(c, id) ==
    /\ Runs(c)
    /\ LET r == StageLive(c)
           l == r.inst
           known == MapGet(l.actors, id) # NoCodec
           request == Packet("WHOIS_ACTOR", "", Uuid(r.uuid + 1), id, None)
           sends == [i \in 1..Len(l.stages) |->
                        [to |-> l.stages[i].id, via |-> l.stages[i].via, msg |-> request]]
           n == QueueNext(l.messages, l.pulls)
           k == Len(l.lookups) + 1
       IN /\ (IF known THEN r.uuid ELSE r.uuid + 1) <= MaxUuid
          /\ links' = Constructed(c, r)
          /\ Called(c, "actor", r)
          /\ IF known
             THEN /\ selfLIVE' = [selfLIVE EXCEPT ![c] = l]
                  /\ uuid' = r.uuid
                  /\ UNCHANGED <<wires, emitted>>
             ELSE /\ selfLIVE' = [selfLIVE EXCEPT ![c] =
                         [l EXCEPT !.messages = n.q,
                                   !.pulls = n.outcomes,
                                   !.lookups = Append(@, [whois |-> id, req |-> request.id,
                                                          st |-> "waiting",
                                                          pull |-> Len(n.outcomes)]),
                                   !.ready = IF n.outcomes[Len(n.outcomes)] # Pending
                                             THEN Append(@, k) ELSE @]]
                  /\ uuid' = r.uuid + 1
                  /\ wires' = Posted(wires, c, sends)
                  /\ emitted' = [emitted EXCEPT ![c] = @ \o sends]
    /\ UNCHANGED exceptStage

\* actor(id) after an await of match(): the for await of Mailbox.match
\* resumes with the outcome of its next().  The packet with the request id
\* is returned, which leaves the loop and so calls return() on the queue,
\* and actor(id) stores a RemoteActor for its address; any other packet is
\* buffered and next() is called again; when the queue is done match()
\* returns undefined and `response.actor` throws
StageResume(c) ==
    /\ selfLIVE[c] # None
    /\ selfLIVE[c].ready # <<>>
    /\ LET l == selfLIVE[c]
           k == Head(l.ready)
           out == l.pulls[l.lookups[k].pull]
           r == QueueReturn(l.messages, l.pulls)
           n == QueueNext(l.messages, l.pulls)
       IN selfLIVE' = [selfLIVE EXCEPT ![c] =
              IF out = Done
              THEN [l EXCEPT !.lookups[k].st = "TypeError", !.ready = Tail(@)]
              ELSE IF out.v.id = l.lookups[k].req
              THEN [l EXCEPT !.lookups[k].st = "resolved",
                             !.messages = r.q,
                             !.pulls = r.outcomes,
                             !.actors = MapSet(@, ActorEntry(l.lookups[k].whois,
                                                             out.v.actor, FALSE)),
                             !.ready = Tail(@) \o Settled(l.pulls, r.outcomes,
                                           [l.lookups EXCEPT ![k].st = "resolved"])]
              ELSE [l EXCEPT !.buffer = Append(@, out.v),
                             !.messages = n.q,
                             !.pulls = n.outcomes,
                             !.lookups[k].pull = Len(n.outcomes),
                             !.ready = Tail(@) \o
                                 (IF n.outcomes[Len(n.outcomes)] # Pending
                                  THEN <<k>> ELSE <<>>)]]
    /\ UNCHANGED <<uuid, links, wires, emitted, acted, sop>>
    /\ UNCHANGED exceptStage

\* RemoteActor.send(msg) on the handle stored under key: an actor of this
\* stage is looked up and gets the message; for any other a SEND packet
\* with a fresh id goes to every linked stage
ActorSend(c, key) ==
    /\ selfLIVE[c] # None
    /\ MapGet(selfLIVE[c].actors, key) # NoCodec
    /\ LET l == selfLIVE[c]
           address == MapGet(l.actors, key).address
           id == Uuid(uuid + 1)
           target == MapGet(l.actors, address.actor)
           packet == [Packet("SEND", "", id, "", None)
                         EXCEPT !.to = address, !.message = id]
           sends == [i \in 1..Len(l.stages) |->
                        [to |-> l.stages[i].id, via |-> l.stages[i].via, msg |-> packet]]
       IN IF l.id = address.stage
          THEN /\ target # NoCodec /\ target.local
               /\ Len(target.inbox) < MaxUuid
               /\ selfLIVE' = [selfLIVE EXCEPT ![c].actors =
                                  MapSet(@, [target EXCEPT !.inbox = Append(@, "m")])]
               /\ UNCHANGED <<uuid, wires, emitted>>
          ELSE /\ uuid + 1 <= MaxUuid
               /\ uuid' = uuid + 1
               /\ wires' = Posted(wires, c, sends)
               /\ emitted' = [emitted EXCEPT ![c] = @ \o sends]
               /\ UNCHANGED selfLIVE
    /\ UNCHANGED <<links, acted, sop>>
    /\ UNCHANGED exceptStage

\* link() that takes whatever comes first for the identification
StageLink_Mut(c, p) ==
    /\ links[c][p].st = "identify"
    /\ selfLIVE[c] # None
    /\ wires[c][p] # <<>>
    /\ LET identify == Head(wires[c][p])
           as == IF isTab(c) THEN "CHILD" ELSE "PARENT"
           l == [selfLIVE[c] EXCEPT !.stages = StagesSet(@, identify.stage, as, p)]
           d == IF as = "PARENT" THEN LiveReady(l, identify.stage)
                ELSE [live |-> l, sends |-> <<>>]
       IN /\ links' = [links EXCEPT ![c][p].st = "linked"]
          /\ selfLIVE' = [selfLIVE EXCEPT ![c] = d.live]
          /\ wires' = Posted([wires EXCEPT ![c][p] = Tail(@)], c, d.sends)
          /\ emitted' = [emitted EXCEPT ![c] = @ \o d.sends]
    /\ UNCHANGED <<uuid, acted, sop>>
    /\ UNCHANGED exceptStage

\* link() after its await, on the channel of context c to context p: the
\* first packet of the channel identifies the other stage, or link throws
StageLink(c, p) ==
    /\ links[c][p].st = "identify"
    /\ selfLIVE[c] # None
    /\ wires[c][p] # <<>>
    /\ LET identify == Head(wires[c][p])
           as == IF isTab(c) THEN "CHILD" ELSE "PARENT"
           l == [selfLIVE[c] EXCEPT !.stages = StagesSet(@, identify.stage, as, p)]
           d == IF as = "PARENT" THEN LiveReady(l, identify.stage)
                ELSE [live |-> l, sends |-> <<>>]
       IN IF identify.type # "STAGE"
          THEN /\ links' = [links EXCEPT ![c][p].st = "threw"]
               /\ wires' = [wires EXCEPT ![c][p] = Tail(@)]
               /\ UNCHANGED <<selfLIVE, emitted>>
          ELSE /\ links' = [links EXCEPT ![c][p].st = "linked"]
               /\ selfLIVE' = [selfLIVE EXCEPT ![c] = d.live]
               /\ wires' = Posted([wires EXCEPT ![c][p] = Tail(@)], c, d.sends)
               /\ emitted' = [emitted EXCEPT ![c] = @ \o d.sends]
    /\ UNCHANGED <<uuid, acted, sop>>
    /\ UNCHANGED exceptStage

\* an isSend that looks at the 'to' of the packet
isSend_To(msg) == msg.type = "SEND" /\ msg.to # None

\* Message.isSend: a SEND packet that has an object under 'actor'
isSend(msg) == msg.type = "SEND" /\ msg.actor # None

\* handle() that looks in the actors map before the names
WhoisReply_Mut(l, p, msg) ==
    LET alias == IF msg.whois \in Names THEN l.names[msg.whois] ELSE ""
        act == MapGet(l.actors, msg.whois)
    IN IF act # NoCodec
       THEN <<[to |-> "", via |-> p, msg |-> Packet("ACTOR", "", msg.id, "", act.address)]>>
       ELSE IF alias # ""
       THEN <<[to |-> "", via |-> p,
               msg |-> Packet("ACTOR", "", msg.id, "", [actor |-> alias, stage |-> l.id])]>>
       ELSE <<>>

\* handle() that asks the other stages for what it does not know
WhoisReply_Asks(l, p, msg) ==
    LET alias == IF msg.whois \in Names THEN l.names[msg.whois] ELSE ""
        act == MapGet(l.actors, msg.whois)
        others == SelectSeq(l.stages, LAMBDA s : s.via # p)
    IN IF alias # ""
       THEN <<[to |-> "", via |-> p,
               msg |-> Packet("ACTOR", "", msg.id, "", [actor |-> alias, stage |-> l.id])]>>
       ELSE IF act # NoCodec
       THEN <<[to |-> "", via |-> p, msg |-> Packet("ACTOR", "", msg.id, "", act.address)]>>
       ELSE [i \in 1..Len(others) |->
                [to |-> others[i].id, via |-> others[i].via, msg |-> msg]]

\* handle() on a WHOIS_ACTOR packet from the channel to p: the reply for a
\* registered name, else for a key of the actors map, else nothing
WhoisReply(l, p, msg) ==
    LET alias == IF msg.whois \in Names THEN l.names[msg.whois] ELSE ""
        act == MapGet(l.actors, msg.whois)
    IN IF alias # ""
       THEN <<[to |-> "", via |-> p,
               msg |-> Packet("ACTOR", "", msg.id, "", [actor |-> alias, stage |-> l.id])]>>
       ELSE IF act # NoCodec
       THEN <<[to |-> "", via |-> p, msg |-> Packet("ACTOR", "", msg.id, "", act.address)]>>
       ELSE <<>>

\* a handle() that also passes a SEND it keeps on to every stage it knows
LiveHandle_Echo(l, p, msg) ==
    LET target == MapGet(l.actors, msg.to.actor)
        pushed == QueuePush(l.messages, l.pulls, msg)
        forward(stages) == [i \in 1..Len(stages) |->
                               [to |-> stages[i].id, via |-> stages[i].via, msg |-> msg]]
    IN IF msg.type = "WHOIS_ACTOR"
       THEN [live |-> l, sends |-> WhoisReply(l, p, msg)]
       ELSE IF isSend(msg)
       THEN IF msg.to.stage = l.id
            THEN [live |-> IF target = NoCodec THEN l
                           ELSE [l EXCEPT !.actors =
                                    MapSet(@, [target EXCEPT !.inbox = Append(@, msg.message)])],
                  sends |-> <<>>]
            ELSE IF \E i \in 1..Len(l.stages) : l.stages[i].id = msg.to.stage
            THEN [live |-> l,
                  sends |-> forward(SelectSeq(l.stages, LAMBDA s : s.id = msg.to.stage))]
            ELSE [live |-> l,
                  sends |-> forward(SelectSeq(l.stages, LAMBDA s : s.via # p))]
       ELSE [live |-> [l EXCEPT !.messages = pushed.q,
                                !.pulls = pushed.outcomes,
                                !.ready = @ \o Settled(l.pulls, pushed.outcomes, l.lookups)],
             sends |-> IF msg.type = "SEND" THEN forward(l.stages) ELSE <<>>]

\* Live.handle(channel, msg) for a packet from the channel to p: the stage
\* afterwards and the packets it sends.  A SEND for this stage goes to the
\* local actor (a missing one throws inside handle and changes nothing), a
\* SEND for a known stage goes to that stage, any other SEND to every stage
\* but the one on this channel; what is neither WHOIS_ACTOR nor SEND is
\* pushed on this.messages
LiveHandle(l, p, msg) ==
    LET target == MapGet(l.actors, msg.to.actor)
        pushed == QueuePush(l.messages, l.pulls, msg)
        forward(stages) == [i \in 1..Len(stages) |->
                               [to |-> stages[i].id, via |-> stages[i].via, msg |-> msg]]
    IN IF msg.type = "WHOIS_ACTOR"
       THEN [live |-> l, sends |-> WhoisReply(l, p, msg)]
       ELSE IF isSend(msg)
       THEN IF msg.to.stage = l.id
            THEN [live |-> IF target = NoCodec THEN l
                           ELSE [l EXCEPT !.actors =
                                    MapSet(@, [target EXCEPT !.inbox = Append(@, msg.message)])],
                  sends |-> <<>>]
            ELSE IF \E i \in 1..Len(l.stages) : l.stages[i].id = msg.to.stage
            THEN [live |-> l,
                  sends |-> forward(SelectSeq(l.stages, LAMBDA s : s.id = msg.to.stage))]
            ELSE [live |-> l,
                  sends |-> forward(SelectSeq(l.stages, LAMBDA s : s.via # p))]
       ELSE [live |-> [l EXCEPT !.messages = pushed.q,
                                !.pulls = pushed.outcomes,
                                !.ready = @ \o Settled(l.pulls, pushed.outcomes, l.lookups)],
             sends |-> <<>>]

\* a router of a link that ends when a SEND for this stage names an actor
\* the stage does not have
StageHandle_Stops(c, p) ==
    /\ links[c][p].st = "linked"
    /\ wires[c][p] # <<>>
    /\ LET msg == Head(wires[c][p])
           d == LiveHandle(selfLIVE[c], p, msg)
           missing == /\ msg.type = "SEND"
                      /\ msg.to.stage = selfLIVE[c].id
                      /\ MapGet(selfLIVE[c].actors, msg.to.actor) = NoCodec
       IN /\ selfLIVE' = [selfLIVE EXCEPT ![c] = d.live]
          /\ wires' = Posted([wires EXCEPT ![c][p] = Tail(@)], c, d.sends)
          /\ emitted' = [emitted EXCEPT ![c] = @ \o d.sends]
          /\ links' = [links EXCEPT ![c][p].st = IF missing THEN "failed" ELSE @]
    /\ UNCHANGED <<uuid, acted, sop>>
    /\ UNCHANGED exceptStage

\* the router of a link: handle(channel, msg) for the next packet of the
\* channel of context c to context p
StageHandle(c, p) ==
    /\ links[c][p].st = "linked"
    /\ wires[c][p] # <<>>
    /\ LET d == LiveHandle(selfLIVE[c], p, Head(wires[c][p]))
       IN /\ selfLIVE' = [selfLIVE EXCEPT ![c] = d.live]
          /\ wires' = Posted([wires EXCEPT ![c][p] = Tail(@)], c, d.sends)
          /\ emitted' = [emitted EXCEPT ![c] = @ \o d.sends]
    /\ UNCHANGED <<uuid, links, acted, sop>>
    /\ UNCHANGED exceptStage

InitStage == InitChannel

NextStage ==
    \/ \E c \in Ctx : StageLiveCall(c) /\ uuid' <= MaxBoot
    \/ \E c \in Ctx : StageReady(c)
    \/ StageDedicated
    \/ \E c \in Ctx : StageSpawn(c) /\ uuid' <= MaxBoot
    \/ \E c \in Ctx, name \in Names : StageRegister(c, name) /\ uuid' <= MaxBoot
    \/ \E c \in Ctx : \E id \in Names : StageActor(c, id) /\ uuid' <= MaxBoot
    \/ \E c, p \in Ctx : StageLink(c, p)
    \/ \E c, p \in Ctx : StageHandle(c, p)

SpecStage == InitStage /\ [][NextStage]_vars

\* a tab and its dedicated worker after the handshake: the worker called
\* ready() and dedicated(source) resolved
InitLinked ==
    /\ codecs = <<ChannelCodec>>
    /\ transfers = EmptyWeakMap
    /\ live = NoWire
    /\ regs = 0
    /\ wop = "init"
    /\ wx = None
    /\ wenc = None
    /\ wdec = None
    /\ wreg = NoCodec
    /\ given = EmptyWeakMap
    /\ InitChan
    /\ InitMbox
    /\ InitNoRemote
    /\ selfLIVE = [c \in Contexts |->
                      IF c = Tab
                      THEN [NewLive(Uuid(1)) EXCEPT !.stages = StagesSet(@, Uuid(2), "CHILD", Child)]
                      ELSE IF c = Child
                      THEN [NewLive(Uuid(2)) EXCEPT !.stages = StagesSet(@, Uuid(1), "PARENT", Tab),
                                                    !.isReady = TRUE]
                      ELSE None]
    /\ uuid = 2
    /\ links = [c \in Contexts |-> [p \in Contexts |->
                    IF {c, p} = Ctx THEN [LinkBegin EXCEPT !.st = "linked"]
                    ELSE [st |-> "none", wire |-> {}]]]
    /\ wires = [c \in Contexts |-> [p \in Contexts |-> <<>>]]
    /\ emitted = [c \in Contexts |->
                     IF c = Tab THEN <<[to |-> "", via |-> Child, msg |-> StagePacket(Uuid(1))]>>
                     ELSE IF c = Child
                     THEN <<[to |-> Uuid(1), via |-> Tab, msg |-> StagePacket(Uuid(2))]>>
                     ELSE <<>>]
    /\ acted = {[ctx |-> Tab, fn |-> "dedicated", id |-> Uuid(1)],
                [ctx |-> Child, fn |-> "ready", id |-> Uuid(2)]}
    /\ sop = [ctx |-> Child, fn |-> "ready", id |-> Uuid(2), was |-> FALSE, tick |-> 1]
    /\ routine = None
    /\ selected = None

\* what the scripts of the two linked stages do with actors
NextActors ==
    \/ \E c \in Ctx, name \in Names : StageRegister(c, name)
    \/ \E c \in Ctx : \E id \in Names : StageActor(c, id)
    \/ \E c \in Ctx : StageResume(c)
    \/ \E c \in Ctx : \E key \in Whois : ActorSend(c, key)
    \/ \E c, p \in Ctx : StageHandle(c, p)

SpecActors == InitLinked /\ [][NextActors]_vars

\* what the scripts of the two linked stages do to their names and actors
NextRegistry ==
    \/ \E c \in Ctx : StageSpawn(c)
    \/ \E c \in Ctx, name \in Names : StageRegister(c, name)
    \/ \E c \in Ctx, name \in Names : StageRegisterActor(c, name)

SpecRegistry == InitLinked /\ [][NextRegistry]_vars

\* two tabs that connect to one shared worker
NextShared ==
    \/ \E c \in {Tab, Tab2, Shared} : StageLiveCall(c)
    \/ \E c \in {Tab, Tab2, Shared} : StageReady(c)
    \/ \E t \in {Tab, Tab2} : StageShared(t)
    \/ \E t \in {Tab, Tab2} : StageConnect(t)
    \/ \E c, p \in {Tab, Tab2, Shared} : StageLink(c, p)

SpecShared == InitStage /\ [][NextShared]_vars

\* the linked stages of a topology, each context with its stage id and the
\* contexts it is linked to with the role they have for it.  The chain is a
\* tab with a dedicated worker and a shared worker that a second tab is
\* connected to as well; in the ring the two tabs are connected to the same
\* two shared workers
Topologies ==
    [chain |-> [c \in Contexts |->
                  IF c = Tab THEN [id |-> "u1", to |-> <<Child, Shared>>, as |-> "CHILD"]
                  ELSE IF c = Child THEN [id |-> "u2", to |-> <<Tab>>, as |-> "PARENT"]
                  ELSE IF c = Shared THEN [id |-> "u3", to |-> <<Tab, Tab2>>, as |-> "PARENT"]
                  ELSE IF c = Tab2 THEN [id |-> "u4", to |-> <<Shared>>, as |-> "CHILD"]
                  ELSE [id |-> "", to |-> <<>>, as |-> ""]],
     ring |-> [c \in Contexts |->
                  IF c = Tab THEN [id |-> "u1", to |-> <<Shared, Shared2>>, as |-> "CHILD"]
                  ELSE IF c = Shared2 THEN [id |-> "u2", to |-> <<Tab, Tab2>>, as |-> "PARENT"]
                  ELSE IF c = Shared THEN [id |-> "u3", to |-> <<Tab, Tab2>>, as |-> "PARENT"]
                  ELSE IF c = Tab2 THEN [id |-> "u4", to |-> <<Shared, Shared2>>, as |-> "CHILD"]
                  ELSE [id |-> "", to |-> <<>>, as |-> ""]]]

\* the stages of a topology after every handshake; the stage with the id
\* `stage` spawned the actor u7, and the stage of context `holder` holds a
\* handle for the address {actor: u7, stage}
InitRelay ==
    /\ codecs = <<ChannelCodec>>
    /\ transfers = EmptyWeakMap
    /\ live = NoWire
    /\ regs = 0
    /\ wop = "init"
    /\ wx = None
    /\ wenc = None
    /\ wdec = None
    /\ wreg = NoCodec
    /\ given = EmptyWeakMap
    /\ InitChan
    /\ InitMbox
    /\ InitNoRemote
    /\ uuid = 4
    /\ acted = {}
    /\ sop = None
    /\ routine = None
    /\ selected = None
    /\ wires = [c \in Contexts |-> [p \in Contexts |-> <<>>]]
    /\ \E shape \in DOMAIN Topologies, holder \in Contexts,
          stage \in {"u1", "u2", "u3", "u4", "u9"} :
          LET top == Topologies[shape]
              linked(c) == [i \in 1..Len(top[c].to) |->
                               [id |-> top[top[c].to[i]].id, as |-> top[c].as,
                                via |-> top[c].to[i]]]
              address == [actor |-> "u7", stage |-> stage]
          IN /\ top[holder].id \notin {"", stage}
             /\ selfLIVE = [c \in Contexts |->
                    IF top[c].id = "" THEN None
                    ELSE [NewLive(top[c].id) EXCEPT
                             !.isReady = top[c].as = "PARENT",
                             !.stages = linked(c),
                             !.actors = IF top[c].id = stage
                                        THEN <<ActorEntry("u7", address, TRUE)>>
                                        ELSE IF c = holder
                                        THEN <<ActorEntry("u7", address, FALSE)>>
                                        ELSE <<>>]]
             /\ links = [c \in Contexts |-> [p \in Contexts |->
                    IF \E i \in 1..Len(top[c].to) : top[c].to[i] = p
                    THEN [LinkBegin EXCEPT !.st = "linked"]
                    ELSE [st |-> "none", wire |-> {}]]]
             /\ emitted = [c \in Contexts |->
                    [i \in 1..Len(top[c].to) |->
                        [to |-> IF top[c].as = "PARENT" THEN top[top[c].to[i]].id ELSE "",
                         via |-> top[c].to[i], msg |-> StagePacket(top[c].id)]]]

\* a send through the handle, and the routers of every link
NextRelay ==
    \/ \E c \in Contexts : ActorSend(c, "u7")
    \/ \E c, p \in Contexts : StageHandle(c, p)

SpecRelay == InitRelay /\ [][NextRelay]_vars

\* a SEND packet as RemoteActor.send builds it
SendPacket(id, actor, stage) ==
    [Packet("SEND", "", id, "", None)
        EXCEPT !.to = [actor |-> actor, stage |-> stage], !.message = id]

\* the packets a linked stage can find on a channel: what its peer may send.
\* The SENDs are for an actor of the tab, for one the tab does not have, for
\* the shared worker and for a stage nobody knows
RouterPackets ==
    {Packet("WHOIS_ACTOR", "", id, whois, None) :
         id \in {"r1", "r2"}, whois \in {"n", "u4", "u5", "u6", "u9"}}
    \cup {Packet("ACTOR", "", "r1", "", [actor |-> "u7", stage |-> Uuid(2)]),
          SendPacket("r1", "u4", Uuid(1)),
          SendPacket("r1", "u9", Uuid(1)),
          SendPacket("r1", "u6", Uuid(3)),
          SendPacket("r1", "u6", "u9"),
          StagePacket(Uuid(2))}

\* the packets that may follow the first one
LaterPackets ==
    {Packet("WHOIS_ACTOR", "", "r2", whois, None) : whois \in {"n", "u5", "u9"}}
    \cup {SendPacket("r2", "u4", Uuid(1))}

\* a tab linked to a dedicated and to a shared worker, with any of: an
\* actor registered as "n", a spawned actor, a handle cached under "n", a
\* handle cached under an id; one packet from one of the workers is on its
\* channel, and perhaps a later one on the same or on the other channel
InitRouter ==
    /\ codecs = <<ChannelCodec>>
    /\ transfers = EmptyWeakMap
    /\ live = NoWire
    /\ regs = 0
    /\ wop = "init"
    /\ wx = None
    /\ wenc = None
    /\ wdec = None
    /\ wreg = NoCodec
    /\ given = EmptyWeakMap
    /\ InitChan
    /\ InitMbox
    /\ InitNoRemote
    /\ uuid = 6
    /\ links = [c \in Contexts |-> [p \in Contexts |->
                    IF Tab \in {c, p} /\ {c, p} \cap {Child, Shared} # {}
                    THEN [LinkBegin EXCEPT !.st = "linked"]
                    ELSE [st |-> "none", wire |-> {}]]]
    /\ acted = {[ctx |-> Tab, fn |-> "dedicated", id |-> Uuid(1)],
                [ctx |-> Tab, fn |-> "shared", id |-> Uuid(1)],
                [ctx |-> Child, fn |-> "ready", id |-> Uuid(2)],
                [ctx |-> Shared, fn |-> "ready", id |-> Uuid(3)]}
    /\ sop = [ctx |-> Shared, fn |-> "ready", id |-> Uuid(3), was |-> FALSE, tick |-> 1]
    /\ routine = None
    /\ selected = None
    /\ \E registered \in BOOLEAN, cached \in SUBSET {"u5", "n", "u6"},
          p \in {Child, Shared}, msg \in RouterPackets,
          q \in {Child, Shared}, later \in SUBSET LaterPackets :
          LET then == IF Cardinality(later) = 1 THEN <<CHOOSE m \in later : TRUE>> ELSE <<>>
              own == [actor |-> "u4", stage |-> Uuid(1)]
              entries == <<ActorEntry("u4", own, TRUE),
                           ActorEntry("u5", [actor |-> "u5", stage |-> Uuid(1)], TRUE),
                           ActorEntry("n", [actor |-> "u6", stage |-> Uuid(2)], FALSE),
                           ActorEntry("u6", [actor |-> "u6", stage |-> Uuid(2)], FALSE)>>
              worker(id) == [NewLive(id) EXCEPT !.stages = StagesSet(@, Uuid(1), "PARENT", Tab),
                                                !.isReady = TRUE]
          IN /\ Cardinality(later) <= 1
             /\ later = {} => q = p
             /\ selfLIVE = [c \in Contexts |->
                    IF c = Tab
                    THEN [NewLive(Uuid(1)) EXCEPT
                             !.stages = StagesSet(StagesSet(@, Uuid(2), "CHILD", Child),
                                                  Uuid(3), "CHILD", Shared),
                             !.names = [n \in Names |-> IF registered THEN "u4" ELSE ""],
                             !.actors = SelectSeq(entries, LAMBDA e :
                                            \/ e.name \in cached
                                            \/ registered /\ e.name = "u4")]
                    ELSE IF c = Child THEN worker(Uuid(2))
                    ELSE IF c = Shared THEN worker(Uuid(3))
                    ELSE None]
             /\ wires = [c \in Contexts |-> [w \in Contexts |->
                            IF c = Tab
                            THEN (IF w = p THEN <<msg>> ELSE <<>>)
                                 \o (IF w = q THEN then ELSE <<>>)
                            ELSE <<>>]]
             /\ emitted = [c \in Contexts |->
                    IF c = Tab
                    THEN <<[to |-> "", via |-> Child, msg |-> StagePacket(Uuid(1))],
                           [to |-> "", via |-> Shared, msg |-> StagePacket(Uuid(1))]>>
                    ELSE IF c \in {Child, Shared}
                    THEN <<[to |-> Uuid(1), via |-> Tab,
                            msg |-> StagePacket(IF c = Child THEN Uuid(2) ELSE Uuid(3))]>>
                         \o (IF c = p THEN <<[to |-> Uuid(1), via |-> Tab, msg |-> msg]>>
                             ELSE <<>>)
                         \o (IF c = q
                             THEN [i \in 1..Len(then) |->
                                      [to |-> Uuid(1), via |-> Tab, msg |-> then[i]]]
                             ELSE <<>>)
                    ELSE <<>>]

\* the routers of the tab
NextRouter == \E p \in {Child, Shared} : StageHandle(Tab, p)

SpecRouter == InitRouter /\ [][NextRouter]_vars

-----------------------------------------------------------------------------
(* Actors inside messages.  An actor is an instance of RemoteActor or      *)
(* LocalActor; m holds its own enumerable fields, and what a class has on  *)
(* its prototype (the method send, the getter address) is read through     *)
(* Get.                                                                    *)

AddressOf(actor, stage) ==
    Obj(<<Entry("actor", Prim(actor)), Entry("stage", Prim(stage))>>)

\* new RemoteActor(address): `public address` is a field
RemoteActor(address) ==
    [t |-> "RemoteActor", p |-> "", m |-> <<Entry("address", address)>>]

\* new LocalActor(fn) in the stage with the given id: the fields id,
\* messages and channel
LocalActor(id, stage) ==
    [t |-> "LocalActor", p |-> stage,
     m |-> <<Entry("id", Prim(id)), Entry("messages", Inst("Queue", "")),
             Entry("channel", Inst("Mailbox", ""))>>]

isFunction(value) == value.t = "function"

\* value[key]: a field, else what the class of value has under key, else
\* undefined
Get(value, key) ==
    IF \E i \in 1..Len(value.m) : value.m[i].k = key
    THEN value.m[CHOOSE i \in 1..Len(value.m) : value.m[i].k = key].v
    ELSE IF value.t \in {"RemoteActor", "LocalActor"} /\ key = "send"
    THEN Inst("function", "send")
    ELSE IF value.t = "LocalActor" /\ key = "address"
    THEN AddressOf(value.m[1].v.p, value.p)
    ELSE undefined

\* canHandle of the codec 'Actor<T>'
ActorCanHandle(value) ==
    isObject(value) /\ isObject(Get(value, "handle")) /\ isFunction(Get(value, "send"))

\* the actors a routine can put in a message: `self`, which is a
\* RemoteActor for the routine's own actor, a handle from actor(id), or a
\* LocalActor returned by spawn() or register()
Actors ==
    {RemoteActor(AddressOf(a, st)) : a \in {"u3", "u4", "u5"}, st \in {"u1", "u2"}}
    \cup {LocalActor(a, st) : a \in {"u3", "u4", "u5"}, st \in {"u1", "u2"}}

\* the codec 'Actor<T>' that stage.ts registers: it is tried on the values
\* its canHandle accepts
ActorCodec ==
    [name |-> "Actor<T>", impl |-> 6,
     handles |-> {value.t : value \in {x \in Actors : ActorCanHandle(x)}}]

\* the messages of the add/sub example: {from, a, b}
Requests ==
    {Obj(<<Entry("from", from), Entry("a", Prim(a)), Entry("b", Prim(b))>>) :
        from \in Actors, a \in {"1", "2", "3"}, b \in {"2", "3"}}

\* a routine is about to send one of the messages to an actor of another
\* stage
InitReply ==
    /\ codecs = <<ChannelCodec, ActorCodec>>
    /\ transfers = EmptyWeakMap
    /\ live = NoWire
    /\ regs = 2
    /\ wop = "init"
    /\ wx \in Requests
    /\ wenc = None
    /\ wdec = None
    /\ wreg = ActorCodec
    /\ given = EmptyWeakMap
    /\ InitChan
    /\ InitMbox
    /\ InitNoRemote
    /\ InitNoStage

\* Channel.send(msg) and the decode at the other port: what the receiving
\* routine gets from its yield
ActorPost ==
    /\ wop = "init"
    /\ LET r == encode(codecs, transfers, wx)
       IN /\ wenc' = r.message
          /\ wdec' = decode(codecs, r.message)
          /\ transfers' = r.tr
    /\ wop' = "post"
    /\ UNCHANGED <<codecs, live, regs, wx, wreg, given>>
    /\ UNCHANGED exceptWire

\* from.send(a + b) in the receiving routine: calling what is not a
\* function throws
ActorReply ==
    /\ wop = "post"
    /\ wop' = IF isFunction(Get(Get(wdec, "from"), "send")) THEN "send" ELSE "TypeError"
    /\ UNCHANGED <<codecs, transfers, live, regs, wx, wenc, wdec, wreg, given>>
    /\ UNCHANGED exceptWire

NextReply == ActorPost \/ ActorReply

SpecReply == InitReply /\ [][NextReply]_vars

-----------------------------------------------------------------------------
(* class LocalActor: the engine that its constructor starts.  The routine  *)
(* is the list of what it yields, a predicate or "any" for a bare yield,   *)
(* and it returns after the last one.  Its Mailbox is the one over a       *)
(* channel, made from fromQueue(this.messages).                            *)

Plans == UNION {[1..n -> {"any"} \cup Preds] : n \in 0..MaxYield}

\* what iter.next() is called with when there is no message
NoMsg == [id |-> 0, value |-> undefined]

\* new LocalActor(spawn), up to handle(iter)
NewActor(plan) ==
    [plan |-> plan, at |-> 0, st |-> "start", hold |-> NoMsg,
     messages |-> NewQueue, pulls |-> <<>>, pull |-> 0, buffer |-> <<>>,
     posted |-> <<>>, resumed |-> <<>>]

InitRoutine ==
    /\ codecs = <<ChannelCodec>>
    /\ transfers = EmptyWeakMap
    /\ live = NoWire
    /\ regs = 0
    /\ wop = "init"
    /\ wx = None
    /\ wenc = None
    /\ wdec = None
    /\ wreg = NoCodec
    /\ given = EmptyWeakMap
    /\ InitChan
    /\ InitMbox
    /\ InitNoRemote
    /\ selfLIVE = [c \in Contexts |-> None]
    /\ uuid = 0
    /\ links = [c \in Contexts |-> [p \in Contexts |-> [st |-> "none", wire |-> {}]]]
    /\ wires = [c \in Contexts |-> [p \in Contexts |-> <<>>]]
    /\ emitted = [c \in Contexts |-> <<>>]
    /\ acted = {}
    /\ sop = None
    /\ routine \in {NewActor(plan) : plan \in Plans}
    /\ selected = None

\* LocalActor.send(msg): this.messages.push(msg); the message is known by
\* its place among the messages sent
RoutineSend(value) ==
    /\ Len(routine.posted) < MaxMsg
    /\ LET msg == [id |-> Len(routine.posted) + 1, value |-> value]
           pushed == QueuePush(routine.messages, routine.pulls, msg)
       IN routine' = [routine EXCEPT !.messages = pushed.q,
                                     !.pulls = pushed.outcomes,
                                     !.posted = Append(@, value)]
    /\ UNCHANGED selected
    /\ UNCHANGED exceptActor

\* handle(iter, message): iter.next(message) runs the routine to its next
\* yield or to its end; for a yielded predicate Mailbox.match returns the
\* first buffered message it holds for, which stays in the buffer, or calls
\* next(); for a bare yield Mailbox.recv shifts the buffer or calls next()
RoutineResume ==
    /\ routine.st \in {"start", "got"}
    /\ LET a == [routine EXCEPT !.resumed = Append(@, routine.hold), !.at = @ + 1]
           n == QueueNext(a.messages, a.pulls)
           waiting(st) == [a EXCEPT !.st = st, !.messages = n.q, !.pulls = n.outcomes,
                                    !.pull = Len(n.outcomes)]
           y == a.plan[a.at]
           found == {i \in 1..Len(a.buffer) : Holds(y, a.buffer[i].value)}
       IN routine' =
             IF a.at > Len(a.plan) THEN [a EXCEPT !.st = "done"]
             ELSE IF y = "any"
             THEN IF a.buffer = <<>> THEN waiting("recv")
                  ELSE [a EXCEPT !.hold = Head(a.buffer), !.buffer = Tail(@)]
             ELSE IF found # {}
             THEN [a EXCEPT !.hold = a.buffer[CHOOSE i \in found : \A j \in found : i <= j]]
             ELSE waiting("match")
    /\ UNCHANGED selected
    /\ UNCHANGED exceptActor

\* the awaited next() has settled.  recv() returns its value, undefined
\* when the queue is done; the for await of match() returns the message
\* the predicate holds for, which calls return() on the queue, buffers any
\* other and calls next() again, and ends with undefined on a done queue
RoutineSettle ==
    /\ routine.st \in {"recv", "match"}
    /\ routine.pulls[routine.pull] # Pending
    /\ LET a == routine
           out == a.pulls[a.pull]
           r == QueueReturn(a.messages, a.pulls)
           n == QueueNext(a.messages, a.pulls)
       IN routine' =
             IF out = Done THEN [a EXCEPT !.st = "got", !.hold = NoMsg]
             ELSE IF a.st = "recv" THEN [a EXCEPT !.st = "got", !.hold = out.v]
             ELSE IF Holds(a.plan[a.at], out.v.value)
             THEN [a EXCEPT !.st = "got", !.hold = out.v,
                            !.messages = r.q, !.pulls = r.outcomes]
             ELSE [a EXCEPT !.buffer = Append(@, out.v), !.messages = n.q,
                            !.pulls = n.outcomes, !.pull = Len(n.outcomes)]
    /\ UNCHANGED selected
    /\ UNCHANGED exceptActor

NextRoutine ==
    \/ \E value \in MsgValues : RoutineSend(value)
    \/ RoutineResume
    \/ RoutineSettle

SpecRoutine == InitRoutine /\ [][NextRoutine]_vars

-----------------------------------------------------------------------------
(* channel.ts: select(...channels) over two input channels.  Each input    *)
(* has the queue behind its iterator and the loop that select() started    *)
(* on it; the loop holds one next() on the input at a time.                *)

Inputs == {1, 2}

\* an input channel on which `held` was received before select() was
\* called, and the first next() of the `for await` over it
SelectInput(held) ==
    LET n == QueueNext([NewQueue EXCEPT !.pushBuffer = held], <<>>)
    IN [q |-> n.q, outcomes |-> n.outcomes, pull |-> 1, received |-> held,
        st |-> "loop"]

InitSelect ==
    /\ codecs = <<ChannelCodec>>
    /\ transfers = EmptyWeakMap
    /\ live = NoWire
    /\ regs = 0
    /\ wop = "init"
    /\ wx = None
    /\ wenc = None
    /\ wdec = None
    /\ wreg = NoCodec
    /\ given = EmptyWeakMap
    /\ InitChan
    /\ InitMbox
    /\ InitNoRemote
    /\ selfLIVE = [c \in Contexts |-> None]
    /\ uuid = 0
    /\ links = [c \in Contexts |-> [p \in Contexts |-> [st |-> "none", wire |-> {}]]]
    /\ wires = [c \in Contexts |-> [p \in Contexts |-> <<>>]]
    /\ emitted = [c \in Contexts |-> <<>>]
    /\ acted = {}
    /\ sop = None
    /\ routine = None
    /\ \E held \in [Inputs -> {<<>>} \cup {<<value>> : value \in MsgValues}] :
          selected = [inputs |-> [i \in Inputs |-> SelectInput(held[i])],
                      queue |-> NewQueue, outcomes |-> <<>>]

\* a value is received on input i: port.onmessage pushes it on the queue of
\* the channel
SelectArrive(i, value) ==
    /\ Len(selected.inputs[i].received) < MaxIn
    /\ LET in == selected.inputs[i]
           pushed == QueuePush(in.q, in.outcomes, value)
       IN selected' = [selected EXCEPT !.inputs[i] =
                          [in EXCEPT !.q = pushed.q, !.outcomes = pushed.outcomes,
                                     !.received = Append(@, value)]]
    /\ UNCHANGED routine
    /\ UNCHANGED exceptActor

\* a loop that tags every value with the first channel
SelectPump_Mut(i) ==
    /\ selected.inputs[i].st = "loop"
    /\ selected.inputs[i].outcomes[selected.inputs[i].pull] # Pending
    /\ LET in == selected.inputs[i]
           out == in.outcomes[in.pull]
           pushed == QueuePush(selected.queue, selected.outcomes,
                               [channel |-> 1, value |-> out.v])
           n == QueueNext(in.q, in.outcomes)
       IN selected' =
             IF out = Done THEN [selected EXCEPT !.inputs[i].st = "ended"]
             ELSE [selected EXCEPT !.queue = pushed.q, !.outcomes = pushed.outcomes,
                                   !.inputs[i] = [in EXCEPT !.q = n.q,
                                                            !.outcomes = n.outcomes,
                                                            !.pull = Len(n.outcomes)]]
    /\ UNCHANGED routine
    /\ UNCHANGED exceptActor

\* the loop on input i goes on after its next() settled:
\* queue.push({channel: ch, value}) and the next next(), or the end of the
\* loop when the input is done
SelectPump(i) ==
    /\ selected.inputs[i].st = "loop"
    /\ selected.inputs[i].outcomes[selected.inputs[i].pull] # Pending
    /\ LET in == selected.inputs[i]
           out == in.outcomes[in.pull]
           pushed == QueuePush(selected.queue, selected.outcomes,
                               [channel |-> i, value |-> out.v])
           n == QueueNext(in.q, in.outcomes)
       IN selected' =
             IF out = Done THEN [selected EXCEPT !.inputs[i].st = "ended"]
             ELSE [selected EXCEPT !.queue = pushed.q, !.outcomes = pushed.outcomes,
                                   !.inputs[i] = [in EXCEPT !.q = n.q,
                                                            !.outcomes = n.outcomes,
                                                            !.pull = Len(n.outcomes)]]
    /\ UNCHANGED routine
    /\ UNCHANGED exceptActor

\* recv() on the composite, or next() on its iterator: queue.next()
SelectRecv ==
    /\ Len(selected.outcomes) < MaxTake
    /\ LET n == QueueNext(selected.queue, selected.outcomes)
       IN selected' = [selected EXCEPT !.queue = n.q, !.outcomes = n.outcomes]
    /\ UNCHANGED routine
    /\ UNCHANGED exceptActor

\* close() on the composite: queue.close()
SelectClose ==
    /\ ~selected.queue.closed
    /\ LET r == QueueReturn(selected.queue, selected.outcomes)
       IN selected' = [selected EXCEPT !.queue = r.q, !.outcomes = r.outcomes]
    /\ UNCHANGED routine
    /\ UNCHANGED exceptActor

NextSelect ==
    \/ \E i \in Inputs, value \in MsgValues : SelectArrive(i, value)
    \/ \E i \in Inputs : SelectPump(i)
    \/ SelectRecv
    \/ SelectClose

SpecSelect == InitSelect /\ [][NextSelect]_vars

-----------------------------------------------------------------------------
(* Properties of the wire *)

Range(seq) == {seq[i] : i \in 1..Len(seq)}

\* some codec of cs accepts value or one of its members
RECURSIVE Handled(_, _)
Handled(cs, value) ==
    \/ \E c \in Range(cs) : canHandle(c, value)
    \/ \E i \in 1..Len(value.m) : Handled(cs, value.m[i].v)

\* value is built from primitives, plain objects and arrays only
RECURSIVE IsPlainData(_)
IsPlainData(value) ==
    /\ value.t \in {"prim", "obj", "arr"}
    /\ \A i \in 1..Len(value.m) : IsPlainData(value.m[i].v)

\* the active codecs that accept value
Handlers(cs, value) == {i \in 1..Len(cs) : canHandle(cs[i], value)}

\* C7: decode(encode(x)) is deep-equal to x for every x built from
\* primitives, plain objects and arrays that no codec handles; an array
\* decodes as an array, an object as an object with the same keys.
C7_PlainRoundTrip ==
    (wop = "decode" /\ IsPlainData(wx) /\ ~Handled(live.codecs, wx))
        => wdec = wx

C9_FirstCodecWins ==
    (wop = "encode" /\ isObject(wx) /\ Handlers(live.codecs, wx) # {})
        => LET first == CHOOSE i \in Handlers(live.codecs, wx) :
                            \A j \in Handlers(live.codecs, wx) : i <= j
           IN /\ wenc.t = "ENCODED"
              /\ wenc.codec = live.codecs[first].name
              /\ wenc.value.by = live.codecs[first].impl

\* an object that two active codecs accept was encoded
C9_Witness ==
    /\ wop = "encode"
    /\ isObject(wx)
    /\ Cardinality(Handlers(live.codecs, wx)) >= 2
    /\ wenc.t = "ENCODED"

\* C10: after register(c), c is active: a later encode(x) of an object x
\* that c and no other registered codec accepts yields ENCODED{c.name}, and
\* decode of an envelope naming c.name uses c, whether or not encode or
\* decode had been called before the registration.
C10_RegisterActivates ==
    /\ (wop = "encode" /\ wreg # NoCodec /\ isObject(wx) /\ canHandle(wreg, wx)
            /\ \A c \in Range(live.codecs) \cup Range(codecs) :
                   canHandle(c, wx) => c = wreg)
          => /\ wenc.t = "ENCODED"
             /\ wenc.codec = wreg.name
             /\ wenc.value.by = wreg.impl
    /\ (wop = "decode" /\ wreg # NoCodec /\ wenc.t = "ENCODED"
            /\ wenc.codec = wreg.name)
          => wdec = CodecDecode(wreg, wenc.value)

-----------------------------------------------------------------------------
(* Properties of a pair of channels *)

\* C1: for the channels A and B of a pair(), the values v1..vn sent on A
\* are what the successive recv() calls on B yield, exactly and in that
\* order: the i-th recv that yields a value yields the i-th value sent.
C1_FifoExact ==
    \A s \in Sides : \A i \in 1..Len(got[s]) :
        got[s][i].st = "value"
            => /\ i <= Len(sent[Peer(s)])
               /\ got[s][i].v = sent[Peer(s)][i]

\* C6: after close() on a channel its port is closed and no recv() on that
\* channel stays pending.
C6_CloseEndsPortAndReceivers ==
    \A s \in Sides :
        ended[s] = "close"
            => /\ port[s].closed
               /\ \A i \in 1..Len(got[s]) : got[s][i].st # "pending"

\* C13: a send() whose encode threw made no postMessage call; a send()
\* whose encode returned made exactly one, with the encoded message and its
\* transferables as the two arguments.
C13_SendEncodesThenPosts ==
    \A s \in Sides :
        slast[s] # None
            => IF slast[s].thrown
               THEN port[s].posts = slast[s].posts
               ELSE /\ port[s].posts = slast[s].posts + 1
                    /\ port[s].last.message = encode(codecs, EmptyWeakMap, slast[s].value).message
                    /\ port[s].last.transfer = encode(codecs, EmptyWeakMap, slast[s].value).transfer

\* a send that threw after one that went through, and one that went through
C13_Witness ==
    /\ slast[1] # None /\ slast[1].thrown /\ port[1].posts = 1
    /\ slast[2] # None /\ ~slast[2].thrown /\ port[2].posts = 1

-----------------------------------------------------------------------------
(* Properties of a mailbox *)

\* the messages returned by the calls other than c
ReturnedBut(c) ==
    {calls[d].res.id : d \in {e \in 1..Len(calls) :
                                 e # c /\ calls[e].st = "done" /\ calls[e].res.kind = "msg"}}

BufferIds == {buffer[i].id : i \in 1..Len(buffer)}

\* C2: when match(pred) returns a message, that message satisfies pred and
\* is no longer in the mailbox, every message that arrived before it and was
\* not returned to an earlier call fails pred and is in the buffer, and the
\* buffer holds its messages in arrival order.
C2_MatchReturnsEarliest ==
    (mlast # 0 /\ calls[mlast].op = "match" /\ calls[mlast].res.kind = "msg")
        => LET m == calls[mlast].res
           IN /\ Holds(calls[mlast].pred, m.value)
              /\ m.id \notin BufferIds
              /\ m.id \notin ReturnedBut(mlast)
              /\ \A j \in 1..(m.id - 1) :
                     j \notin ReturnedBut(mlast)
                         => /\ ~Holds(calls[mlast].pred, arrived[j].value)
                            /\ j \in BufferIds
              /\ \A i, k \in 1..Len(buffer) : i < k => buffer[i].id < buffer[k].id

\* C3: on a mailbox that close() has not been called on, a recv() that
\* completes returns a message, and every message that arrived before it has
\* already been returned by another recv or match: stashed messages come
\* first, fresh ones only when nothing is stashed.
C3_RecvReturnsOldest ==
    (mlast # 0 /\ calls[mlast].op = "recv" /\ mended # "close")
        => /\ calls[mlast].res.kind = "msg"
           /\ \A j \in 1..(calls[mlast].res.id - 1) : j \in ReturnedBut(mlast)

\* a match call that is still waiting for a message
Waiting(c) ==
    /\ calls[c].op = "match"
    /\ calls[c].st = "waiting"
    /\ pulls[calls[c].pull] = Pending

\* C4: with several match calls pending, a message is returned to at most
\* one call, and no message that satisfies the predicate of a waiting match
\* sits in the buffer.
C4_NoStashWhileWaiting ==
    /\ \A c, d \in 1..Len(calls) :
           (c # d /\ calls[c].res.kind = "msg" /\ calls[d].res.kind = "msg")
               => calls[c].res.id # calls[d].res.id
    /\ \A c \in 1..Len(calls) :
           Waiting(c) => \A i \in 1..Len(buffer) : ~Holds(calls[c].pred, buffer[i].value)

\* C5: a match call that was waiting when close() ended the mailbox's
\* channel does not complete with a value or with undefined: it fails with
\* a "channel closed" error.
C5_MatchFailsOnClose ==
    \A c \in 1..Len(calls) :
        (/\ calls[c].op = "match"
         /\ calls[c].st = "done"
         /\ calls[c].pull # 0
         /\ pulls[calls[c].pull] = Done
         /\ mended = "close")
            => calls[c].res.kind = "channel closed"

-----------------------------------------------------------------------------
(* Properties of the transferables *)

\* C11: the transferable list of the envelope returned by encode(x) holds
\* no transferable twice, after any sequence of transfer() and encode()
\* calls.
C11_TransferablesUnique ==
    wop = "encode"
        => \A i, j \in 1..Len(wenc.marker) : i # j => wenc.marker[i] # wenc.marker[j]

\* C12: the transferables of the PLAIN envelope of an object x are exactly
\* those of the list handed to transfer(x, list) together with those of the
\* envelopes of its members.
C12_TransferablesAreUnion ==
    (wop = "encode" /\ isObject(wx) /\ wenc.t = "PLAIN")
        => Range(wenc.marker) =
               Range(WeakGet(given, wx))
                   \cup UNION {Range(wenc.value.m[i].v.marker) : i \in 1..Len(wenc.value.m)}

-----------------------------------------------------------------------------
(* Properties of the remote protocol *)

\* the responses that the handler sent for the request with the given id
ResponsesTo(id) ==
    {i \in 1..Len(hlog) : hlog[i].response # None /\ Field(hlog[i].response, "id").p = id}

\* C14: a response carries the id and the type of the request it answers,
\* a proxy operation that has completed was answered by exactly one
\* response, and it completed with that response, the one with its own id.
C14_OneResponsePerRequest ==
    /\ \A i \in 1..Len(hlog) :
           hlog[i].response # None
               => /\ Field(hlog[i].response, "id") = Field(hlog[i].request, "id")
                  /\ Field(hlog[i].response, "type") = Field(hlog[i].request, "type")
    /\ \A c \in 1..Len(rops) :
           (rops[c].awaited /\ rops[c].st # "pending")
               => /\ rops[c].st = "value"
                  /\ rops[c].from = IdOf(c)
                  /\ Cardinality(ResponsesTo(IdOf(c))) = 1

\* C15: when the reflective operation for a request throws, the handler
\* has sent a response for that request.
C15_ThrowIsAnswered ==
    \A i \in 1..Len(hlog) : hlog[i].threw => hlog[i].response # None

\* C16: after a request whose reflective operation threw, the handler is
\* still listening for the next request.
C16_LoopSurvivesThrow ==
    (\E i \in 1..Len(hlog) : hlog[i].threw) => hst = "listening"

\* C17: for add = (x, y) => x + y the handler applies the function to the
\* argument values 2 and 3 of the call, and the proxy call resolves to 5.
C17_ApplyIsTransparent ==
    /\ \A i \in 1..Len(hlog) :
           (rtarget = "add" /\ Field(hlog[i].request, "type").p = "APPLY")
               => ListFromArrayLike(Field(hlog[i].request, "arguments")) = CallArgs
    /\ \A c \in 1..Len(rops) :
           (rtarget = "add" /\ rops[c].type = "APPLY" /\ rops[c].st = "value")
               => rops[c].res = Prim("5")

\* the STAGE packets the stage of context c sent to stage p
StagesSent(c, p) ==
    {i \in 1..Len(emitted[c]) : emitted[c][i].msg.type = "STAGE" /\ emitted[c][i].to = p}

\* C18: live() gives the same Live object on every call in a context: its
\* id is generated once, and every call of live, ready, spawn, register,
\* actor and dedicated acted on the instance the context holds now.
C18_LiveIsSingleton ==
    \A e \in acted : selfLIVE[e.ctx] # None /\ e.id = selfLIVE[e.ctx].id

C18_Witness ==
    /\ \A fn \in {"live", "ready", "actor", "register"} :
           \E e \in acted : e.ctx = Child /\ e.fn = fn
    /\ \E e \in acted : e.ctx = Tab /\ e.fn = "dedicated"

\* C19: however calls of ready() interleave with the completion of the
\* parent link, a stage sends STAGE{id} at most once to each parent link,
\* and a call of ready() on a stage that is already ready sends nothing and
\* changes no state.
C19_ReadyOnce ==
    /\ [](\A c \in Ctx : selfLIVE[c] # None =>
             \A i \in 1..Len(selfLIVE[c].stages) :
                 selfLIVE[c].stages[i].as = "PARENT"
                     => Cardinality(StagesSent(c, selfLIVE[c].stages[i].id)) <= 1)
    /\ [][(sop' # sop /\ sop'.fn = "ready" /\ sop'.was)
              => UNCHANGED <<selfLIVE, uuid, links, wires, emitted>>]_vars

C19_Witness ==
    /\ sop # None /\ sop.ctx = Child /\ sop.fn = "ready" /\ sop.was
    /\ links[Child][Tab].st = "linked"
    /\ Cardinality(StagesSent(Child, selfLIVE[Tab].id)) = 1

\* no link() and no router has a packet left that it can take
StageQuiet ==
    \A c, p \in Ctx : wires[c][p] = <<>> \/ links[c][p].st \in {"none", "threw"}

\* C20: dedicated(source) resolves only after the child called ready(),
\* the child sends no STAGE packet before it is ready, and once the child
\* is ready and linked and every packet that can be taken has been taken,
\* dedicated(source) has resolved.
C20_ResolvesOnceChildReady ==
    /\ links[Tab][Child].st = "linked" => (selfLIVE[Child] # None /\ selfLIVE[Child].isReady)
    /\ (\E i \in 1..Len(emitted[Child]) : emitted[Child][i].msg.type = "STAGE")
           => selfLIVE[Child].isReady
    /\ (/\ selfLIVE[Child] # None /\ selfLIVE[Child].isReady
        /\ links[Child][Tab].st = "linked"
        /\ StageQuiet)
           => links[Tab][Child].st = "linked"

\* the entries of the stages map of context c with role PARENT
ParentLinks(c) ==
    {i \in 1..Len(selfLIVE[c].stages) : selfLIVE[c].stages[i].as = "PARENT"}

\* C21: a live stage holds at most one link with role PARENT in its stages
\* map, whatever the number of connections made to it: none for the stage
\* of a tab, exactly one for the stage of a worker once it is linked.
C21_AtMostOneParent ==
    \A c \in Contexts : selfLIVE[c] # None =>
        /\ Cardinality(ParentLinks(c)) <= 1
        /\ isTab(c) => ParentLinks(c) = {}
        /\ (~isTab(c) /\ \E p \in Contexts : links[c][p].st = "linked")
               => Cardinality(ParentLinks(c)) = 1

\* the router of context c takes a WHOIS_ACTOR packet from the channel to p
HandlesWhois(c, p) ==
    /\ links[c][p].st = "linked"
    /\ wires[c][p] # <<>>
    /\ Head(wires[c][p]).type = "WHOIS_ACTOR"
    /\ wires'[c][p] = Tail(wires[c][p])

\* whether the stage l knows the value as a registered name or as a key of
\* its actors map
Knows(l, whois) ==
    \/ whois \in Names /\ l.names[whois] # ""
    \/ MapGet(l.actors, whois) # NoCodec

\* C29: on a WHOIS_ACTOR packet {id, whois} whose whois is a registered
\* name or a key of the actors map, the router sends exactly one ACTOR
\* packet, with the same id, on the channel the request came from and on no
\* other: its address is {actor: names[whois], stage: own id} when whois is
\* a registered name, even when it is also a key of the actors map, and the
\* address of actors[whois] otherwise
C29_WhoisAnswered ==
    [][\A c, p \in Contexts :
          LET l == selfLIVE[c]
              msg == Head(wires[c][p])
              address == IF msg.whois \in Names /\ l.names[msg.whois] # ""
                         THEN [actor |-> l.names[msg.whois], stage |-> l.id]
                         ELSE MapGet(l.actors, msg.whois).address
              reply == Packet("ACTOR", "", msg.id, "", address)
          IN (HandlesWhois(c, p) /\ Knows(l, msg.whois))
             => /\ emitted'[c] = Append(emitted[c], [to |-> "", via |-> p, msg |-> reply])
                /\ \A q \in Contexts :
                       wires'[q][c] = IF q = p THEN Append(wires[q][c], reply)
                                      ELSE wires[q][c]]_vars

\* the tab answered the dedicated worker's WHOIS_ACTOR for "n", which is a
\* registered name and a key of its actors map, with the address of the
\* registered actor
C29_Witness ==
    /\ selfLIVE[Tab] # None
    /\ selfLIVE[Tab].names["n"] = "u4"
    /\ MapGet(selfLIVE[Tab].actors, "n") # NoCodec
    /\ wires[Tab][Child] = <<>>
    /\ Len(emitted[Child]) = 2
    /\ emitted[Child][2].msg.type = "WHOIS_ACTOR"
    /\ emitted[Child][2].msg.whois = "n"
    /\ Len(emitted[Tab]) = 3
    /\ emitted[Tab][3].via = Child
    /\ emitted[Tab][3].msg.actor = [actor |-> "u4", stage |-> Uuid(1)]
    /\ wires[Shared][Tab] = <<>>

\* C30: on a WHOIS_ACTOR packet whose whois is neither a registered name nor
\* a key of the actors map, the router sends nothing on any channel and
\* leaves the stage (names, actors, stages, internal mailbox) as it was
C30_UnknownWhoisDropped ==
    [][\A c, p \in Contexts :
          (HandlesWhois(c, p) /\ ~Knows(selfLIVE[c], Head(wires[c][p]).whois))
          => /\ emitted' = emitted
             /\ \A q \in Contexts : wires'[q][c] = wires[q][c]
             /\ selfLIVE' = selfLIVE]_vars

\* the tab took the shared worker's WHOIS_ACTOR for an id nobody has and
\* sent nothing
C30_Witness ==
    /\ selfLIVE[Tab] # None
    /\ wires[Tab][Shared] = <<>>
    /\ Len(emitted[Shared]) = 2
    /\ emitted[Shared][2].msg.type = "WHOIS_ACTOR"
    /\ emitted[Shared][2].msg.whois = "u9"
    /\ Len(emitted[Tab]) = 2
    /\ wires[Child][Tab] = <<>>

\* the entries of the stages map of context c for the channel to p
StagesVia(c, p) ==
    IF selfLIVE[c] = None THEN {}
    ELSE {selfLIVE[c].stages[i] : i \in {j \in 1..Len(selfLIVE[c].stages) :
                                            selfLIVE[c].stages[j].via = p}}

\* C28: when the first packet a link receives is not a STAGE packet, link()
\* throws, the stages map gets no entry and no packet of that channel is
\* ever routed; when it is STAGE{id}, the stages map holds id with the role
\* of the link as soon as the link is up, and packets of the channel are
\* routed only after that
C28_Handshake ==
    [][\A c, p \in Contexts :
          LET first == Head(wires[c][p])
              role == IF isTab(c) THEN "CHILD" ELSE "PARENT"
          IN /\ (links[c][p].st = "identify" /\ links'[c][p].st # "identify")
                => /\ wires[c][p] # <<>>
                   /\ wires'[c][p] = Tail(wires[c][p])
                   /\ IF first.type = "STAGE"
                      THEN /\ links'[c][p].st = "linked"
                           /\ [id |-> first.stage, as |-> role, via |-> p]
                                  \in StagesVia(c, p)'
                      ELSE /\ links'[c][p].st = "threw"
                           /\ selfLIVE'[c].stages = selfLIVE[c].stages
             /\ (links[c][p].st # "identify" /\ Len(wires'[c][p]) < Len(wires[c][p]))
                => links[c][p].st = "linked" /\ StagesVia(c, p) # {}
             /\ links[c][p].st = "threw"
                => links'[c][p].st = "threw" /\ StagesVia(c, p)' = {}]_vars

\* the worker is linked to the tab by the tab's STAGE packet, while the
\* tab's link got a WHOIS_ACTOR first and threw; the packet the worker sent
\* next stays on the channel
C28_Witness ==
    /\ links[Child][Tab].st = "linked"
    /\ StagesVia(Child, Tab) = {[id |-> Uuid(1), as |-> "PARENT", via |-> Tab]}
    /\ links[Tab][Child].st = "threw"
    /\ StagesVia(Tab, Child) = {}
    /\ wires[Tab][Child] # <<>>

\* the step is a call of register() in context c
Registers(c) == sop' # sop /\ sop'.ctx = c /\ sop'.fn = "register"

ActorReplies(c, req) ==
    {e.msg.actor : e \in {x \in UNION {{emitted[p][i] : i \in 1..Len(emitted[p])} :
                                           p \in Contexts \ {c}} :
                              x.via = c /\ x.msg.type = "ACTOR" /\ x.msg.id = req}}

\* C22: an actor(id) call that asked the other stages never fails: once it
\* has gone on after its await it has completed with a RemoteActor for the
\* address of an ACTOR packet with its request id, stored in the actors map
\* under id
C22_LookupCompletes ==
    \A c \in Contexts : selfLIVE[c] # None =>
        \A k \in 1..Len(selfLIVE[c].lookups) :
            LET call == selfLIVE[c].lookups[k]
            IN call.st # "waiting"
               => /\ call.st = "resolved"
                  /\ MapGet(selfLIVE[c].actors, call.whois) # NoCodec
                  /\ MapGet(selfLIVE[c].actors, call.whois).address
                         \in ActorReplies(c, call.req)

\* how many times the message is among the messages given to the actor
Delivered(act, message) ==
    IF act = NoCodec THEN 0
    ELSE Cardinality({i \in 1..Len(act.inbox) : act.inbox[i] = message})

\* C23: a message that the tab sent through the handle it got from
\* actor("n") for the actor the worker registered is given to that actor
\* once and no more: never twice, and once when the worker has taken every
\* packet the tab sent it
C23_SentIsDelivered ==
    \A i \in 1..Len(emitted[Tab]) :
        LET packet == emitted[Tab][i].msg
            act == MapGet(selfLIVE[Child].actors, packet.to.actor)
        IN (packet.type = "SEND" /\ packet.to.stage = selfLIVE[Child].id)
           => /\ Delivered(act, packet.message) <= 1
              /\ wires[Child][Tab] = <<>> => Delivered(act, packet.message) = 1

\* C24: an actor put in a message under `from` arrives as an actor with the
\* same address that has a send method, and the receiver's from.send(...)
\* does not throw
C24_ActorArrives ==
    wop # "init"
    => /\ Get(Get(wdec, "from"), "address") = Get(Get(wx, "from"), "address")
       /\ isFunction(Get(Get(wdec, "from"), "send"))
       /\ wop # "TypeError"

\* the messages sent to the actor that its routine was not given before
\* its k-th resumption and that what it yielded then, y, asks for
Undelivered(k, y) ==
    {id \in 1..Len(routine.posted) :
        /\ \A j \in 1..(k - 1) : routine.resumed[j].id # id
        /\ y = "any" \/ Holds(y, routine.posted[id])}

\* C25: the routine is first resumed with undefined; after a bare yield it
\* is resumed with the oldest message it has not been given, after a
\* yielded predicate with the oldest such message the predicate holds for;
\* no message is given to it twice; and once it has returned no next() is
\* pending on the actor's queue
C25_RoutineResumed ==
    /\ \A k \in 1..Len(routine.resumed) :
          LET message == routine.resumed[k]
          IN IF k = 1 THEN message = NoMsg
             ELSE /\ message.id \in Undelivered(k, routine.plan[k - 1])
                  /\ message.value = routine.posted[message.id]
                  /\ \A id \in Undelivered(k, routine.plan[k - 1]) : message.id <= id
    /\ routine.st = "done" => routine.messages.pullBuffer = <<>>

\* what the composite has yielded so far, in order
Yielded ==
    LET settled == SelectSeq(selected.outcomes, LAMBDA o : o.st = "value")
    IN [k \in 1..Len(settled) |-> settled[k].v]

\* the values of the items tagged with input i, in order
FromInput(items, i) ==
    LET mine == SelectSeq(items, LAMBDA item : item.channel = i)
    IN [k \in 1..Len(mine) |-> mine[k].value]

IsPrefix(a, b) == Len(a) <= Len(b) /\ \A k \in 1..Len(a) : a[k] = b[k]

Handles(c, p) ==
    /\ links[c][p].st = "linked"
    /\ wires[c][p] # <<>>
    /\ wires'[c][p] = Tail(wires[c][p])

\* the router of context c takes a SEND packet from the channel to p
HandlesSend(c, p) ==
    /\ Handles(c, p)
    /\ Head(wires[c][p]).type = "SEND"

\* C31: on a SEND packet from a link whose to.stage is the stage's own id and
\* whose to.actor is a local actor, the message is added once to what that
\* actor is given and nothing is sent on any link
C31_LocalSendDelivered ==
    [][\A c, p \in Contexts :
          LET l == selfLIVE[c]
              msg == Head(wires[c][p])
              target == MapGet(l.actors, msg.to.actor)
          IN (/\ HandlesSend(c, p)
              /\ msg.to.stage = l.id
              /\ target # NoCodec
              /\ target.local)
             => /\ MapGet(selfLIVE'[c].actors, msg.to.actor).inbox
                       = Append(target.inbox, msg.message)
                /\ emitted'[c] = emitted[c]
                /\ \A q \in Contexts : wires'[q][c] = wires[q][c]]_vars

\* C32: on a SEND packet whose to.stage is another stage of the stages map,
\* the same packet is sent once on the link of that stage and on no other
\* link, and no actor of this stage is given anything
C32_KnownStageForwarded ==
    [][\A c, p \in Contexts :
          LET l == selfLIVE[c]
              msg == Head(wires[c][p])
              known == SelectSeq(l.stages, LAMBDA s : s.id = msg.to.stage)
          IN (/\ HandlesSend(c, p)
              /\ msg.to.stage # l.id
              /\ known # <<>>)
             => /\ emitted'[c] = Append(emitted[c], [to |-> known[1].id,
                                                     via |-> known[1].via, msg |-> msg])
                /\ selfLIVE'[c].actors = l.actors]_vars

\* C33: on a SEND packet whose to.stage is neither this stage nor a stage of
\* the stages map, the packet is sent once on every link but the one it came
\* from, and never on that one: the tab between its two workers passes a
\* worker's SEND on to the other worker only
C33_UnknownStageBroadcast ==
    [][\A c, p \in Contexts :
          LET l == selfLIVE[c]
              msg == Head(wires[c][p])
              more == SubSeq(emitted'[c], Len(emitted[c]) + 1, Len(emitted'[c]))
          IN (/\ HandlesSend(c, p)
              /\ msg.to.stage # l.id
              /\ \A i \in 1..Len(l.stages) : l.stages[i].id # msg.to.stage)
             => /\ \A i \in 1..Len(more) : more[i].msg = msg /\ more[i].via # p
                /\ \A i \in 1..Len(l.stages) :
                       l.stages[i].via # p
                       => Cardinality({j \in 1..Len(more) :
                                          more[j].via = l.stages[i].via}) = 1]_vars

\* C34: a packet from a link that is neither WHOIS_ACTOR nor SEND is appended
\* to the stage's internal mailbox and nothing is sent on any link; a
\* WHOIS_ACTOR or a SEND packet is never put into the internal mailbox
C34_OnlyOthersBuffered ==
    [][\A c, p \in Contexts :
          LET l == selfLIVE[c]
              msg == Head(wires[c][p])
              pushed == QueuePush(l.messages, l.pulls, msg)
          IN Handles(c, p)
             => IF msg.type \in {"WHOIS_ACTOR", "SEND"}
                THEN /\ selfLIVE'[c].messages = l.messages
                     /\ selfLIVE'[c].pulls = l.pulls
                ELSE /\ selfLIVE'[c].messages = pushed.q
                     /\ selfLIVE'[c].pulls = pushed.outcomes
                     /\ emitted'[c] = emitted[c]]_vars

\* the packets the router of context c has taken from the channel to q
Taken(c, q) ==
    LET from == SelectSeq(emitted[q], LAMBDA e : e.via = c)
    IN SubSeq(from, 1, Len(from) - Len(wires[c][q]))

\* whether the packet is a SEND for the stage l that names an actor l does
\* not have
Misses(l, msg) ==
    /\ msg.type = "SEND"
    /\ msg.to.stage = l.id
    /\ MapGet(l.actors, msg.to.actor) = NoCodec

C37_NamesAreActors ==
    \A c \in Contexts :
        selfLIVE[c] # None
        => \A name \in Names :
               selfLIVE[c].names[name] # ""
               => MapGet(selfLIVE[c].actors, selfLIVE[c].names[name]) # NoCodec

\* the messages of the SEND packets put on a link so far
SentMessages ==
    UNION {{emitted[c][i].msg.message :
               i \in {j \in 1..Len(emitted[c]) : emitted[c][j].msg.type = "SEND"}} :
           c \in Contexts}

\* how many times the message was given to an actor of any stage
DeliveredAnywhere(message) ==
    LET given_to(c) ==
            IF selfLIVE[c] = None THEN {}
            ELSE {<<c, x[1], x[2]>> :
                     x \in {y \in (1..MaxUuid) \X (1..MaxUuid) :
                               /\ y[1] <= Len(selfLIVE[c].actors)
                               /\ y[2] <= Len(selfLIVE[c].actors[y[1]].inbox)
                               /\ selfLIVE[c].actors[y[1]].inbox[y[2]] = message}}
    IN Cardinality(UNION {given_to(c) : c \in Contexts})

IsTree ==
    Cardinality({e \in SUBSET Contexts :
                    \E c, p \in Contexts : e = {c, p} /\ links[c][p].st = "linked"})
        = Cardinality({c \in Contexts : selfLIVE[c] # None}) - 1

\* how many copies of the SEND with the message were put on a link to the
\* context c
Copies(message, c) ==
    LET from(p) == {<<p, x>> : x \in {i \in 1..Len(emitted[p]) :
                                        /\ emitted[p][i].via = c
                                        /\ emitted[p][i].msg.type = "SEND"
                                        /\ emitted[p][i].msg.message = message}}
    IN Cardinality(UNION {from(p) : p \in Contexts})

SetThenGet ==
    {c \in 1..(Len(rops) - 1) :
        /\ rops[c].type = "SET"
        /\ rops[c + 1].type = "GET"
        /\ Field(sent[Slave][c + 1], "prop").p = "x"}

\* C35: a get of x that follows the assignment x = 1 on the same proxy is
\* served after the assignment and, once it has completed, has resolved to
\* 1, the value and not its envelope; and no operation completes with the
\* response of another one, so the acknowledgement of the SET goes to the
\* SET alone
C35_SetThenGet ==
    /\ \A c \in SetThenGet :
           /\ rops[c + 1].st # "pending"
                  => rops[c + 1].st = "value" /\ rops[c + 1].res = Prim("1")
           /\ \A i \in 1..Len(hlog) :
                  Field(hlog[i].request, "id").p = IdOf(c + 1)
                  => \E j \in 1..(i - 1) : Field(hlog[j].request, "id").p = IdOf(c)
    /\ \A c \in 1..Len(rops) : rops[c].from \in {"", IdOf(c)}

\* C40: encode leaves the lists stored by transfer(value, list) alone: after
\* any number of encode calls the list the Wire holds for a value is the
\* list that was handed to transfer for it, so that a second encode of the
\* value gives the transferable list of the first
C40_EncodeKeepsTransfers ==
    live # NoWire
    => \A value \in DOMAIN given : WeakGet(live.transfers, value) = given[value]

=============================================================================
